---------------------------- MODULE Spec2Model ----------------------------
(***************************************************************************)
(* Extract / load core of the Slack -> Mixpanel pipeline.                  *)
(*   src/src/jobs/extract.js      extractMemberAnalytics,                  *)
(*                                extractChannelAnalytics, enrich*Records  *)
(*   src/src/jobs/load.js         uploadBatch, load*Analytics              *)
(*   src/src/services/storage.js  fileExists, writeJSONLGz, deleteFile,    *)
(*                                getFullPath                              *)
(*   src/src/services/slack.js    analytics, getUserDetails,               *)
(*                                getChannelDetails                        *)
(*   src/src/transforms/members.js  transformMemberProfile,                *)
(*                                transformChannelProfile                  *)
(*   src/src/jobs/run-pipeline.js parseParameters, runPipeline             *)
(*   src/src/jobs/tasks.js        uploadTask, cloudTask                    *)
(*   src/src/index.js             parseParameters, POST /mixpanel-*        *)
(* The pipeline run that sequences extract and load follows section 4.6    *)
(* of the specification.                                                   *)
(* Dates are day numbers; a DayFile is identified by (kind, day).          *)
(***************************************************************************)
EXTENDS Integers, Sequences, FiniteSets, TLC

\* ------------------------------------------------------------------ bounds
\* Days of the calendar the runs range over (1..MaxDay).
MaxDay == 3
\* Records in one day's analytics file.
MaxRecs == 2
\* extract invocations in one behaviour.
MaxCalls == 2
\* load invocations in one behaviour.
MaxLoads == 1
\* Files handed to one load call.
MaxFiles == 2
\* Days in the date window of a pipeline run.
MaxWindow == 1
\* Characters in the text of a `days` parameter.
MaxDaysLen == 2
\* Source Client operations invoked in one behaviour.
MaxInvocations == 3
\* Pages of a directory listing.
MaxPages == 2
\* Versions of the workspace's directory (it changes MaxVersions - 1 times).
MaxVersions == 2

\* --------------------------------------------------------------- constants
\* extract.js:329  MAX_ENRICHMENT = production ? 1000 : 10, scaled down so
\* that the entity population (3 IDs) exceeds it.
MAX_ENRICHMENT == 2
\* load.js:49  maxRetries = 3
maxRetries == 3

Days == 1..MaxDay
Kinds == {"members", "channels"}
\* Entity IDs that appear in analytics records; "" is a record with no ID.
Entities == {"E1", "E2", "E3"}
NoId == ""
\* extract.js:305  company_domain of the deployment (README.md:53), and
\* e-mail addresses, as character tuples; <<>> is an unset domain.
company_domain == <<"x", ".", "i", "o">>
EmailMatch == <<"a", "@", "x", ".", "i", "o">>
EmailOther == <<"a", "@", "y", ".", "i", "o">>
EmailUpper == <<"a", "@", "X", ".", "i", "o">>
EmailNoAt == <<"a", "x", ".", "i", "o">>
NoEmail == <<>>
Emails == {EmailMatch, EmailOther, EmailUpper, EmailNoAt, NoEmail}

VARIABLES
    backend,     \* "local" | "gcs": storage.js:14, fixed at process start
    store,       \* [Kinds \X Days -> "absent" | "partial" | "complete"]
    pc,          \* position of the running extract call
    kind, startDay, endDay,  \* arguments of the running extract call
    day,         \* loop variable `date`
    extracted, skipped, files,   \* extract.js:592-594
    cache,       \* userDetailsMap / channelDetailsMap: id -> "none"|"ok"|"error"
    data,        \* filteredData of the current day
    toFetch,     \* usersToFetch still queued behind pLimit(1)
    active,      \* ids whose get*Details call has started and not settled
    enriched,    \* enrichedData of the current day
    outcome,     \* per day of this call: what the loop body did
    fetches,     \* per day of this call: analytics() calls issued
    lookups,     \* per id of this call: get*Details calls made
    writes,      \* per day of this call: writeJSONLGz calls issued
    overwrote,   \* a write was issued on a path that was not absent
    last,        \* the extract call that returned most recently: its
                 \* arguments, the days whose fetch threw, and the days of
                 \* its range that had a DayFile when it returned
    rerun,       \* the running call repeats `last` (same kind and range)
    calls,       \* extract calls started
    groupKeySet, \* channel_group_key is non-empty: load.js:14
    lpc,         \* position of the running load call
    lkind, lfiles, cleanup,      \* arguments of the running load call
    attempt,     \* uploadBatch's loop variable
    evResult, prResult,  \* eventsResult.success / profilesResult.success
    uploaderCalls,   \* per phase of this call: mixpanelImport invocations
    thrown,      \* per phase of this call: attempts that threw
    sent,        \* file lists handed to mixpanelImport in this call
    sleeps,      \* backoff delays of this call, in ms, in order
    delIdx,      \* cleanup loop position
    deleteCalls, deleteFailed,   \* deleteFile calls / rejections of this call
    lresult,     \* value the load call returned
    loads,       \* load calls started
    tin,         \* record and context handed to a profile transform
    tout,        \* what the transform returned
    ostage,      \* position of the running pipeline run
    oopts,       \* options of the run
    otodo,       \* entity pipelines of the run still to do
    oreport,     \* the run's report, as built so far
    slackInit,   \* initializeSlack: "user" | "bot" (auth.test in flight),
                 \* "ready" | "failed"
    caller,      \* how runPipeline is reached: "http" | "direct"
    request,     \* the parameters as the caller gave them
    options,     \* the parameters as runPipeline holds them
    rpc,         \* position of the request
    steps,       \* steps of runPipeline still to do
    runError,    \* the error that ended the run, and what raised it
    status,      \* HTTP status of the response (0: none)
    io,          \* requests the run has issued: to the source, writes to
                 \* the store, uploads
    pipelineJobs,    \* the jobs handed to work(), as allSettled sees them
    report,      \* results of the value runPipeline returned
    dateRange,   \* the window getDateRange computed, in days since 1970-01-01
    initStarts,  \* calls of initializeSlack since the process started
    clientOps,   \* per caller: the Source Client operation it is in
    slackCache,  \* slack.js:77  cache.users / cache.channels
    directory,   \* version of the workspace's directory as the platform lists it
    issued,      \* API requests of client operations: the operation and what
                 \* initialisation had come to when the request was issued
    invoked      \* client operations invoked

\* everything of the extract call but the store
extractRun == <<pc, kind, startDay, endDay, day, extracted, skipped, files,
                cache, data, toFetch, active, enriched, outcome, fetches,
                lookups, writes, overwrote, last, rerun, calls>>

extractVars == <<backend, store, extractRun>>

loadVars == <<groupKeySet, lpc, lkind, lfiles, cleanup, attempt, evResult,
              prResult, uploaderCalls, thrown, sent, sleeps, delIdx,
              deleteCalls, deleteFailed, lresult, loads>>

transformVars == <<tin, tout>>

orchVars == <<ostage, oopts, otodo, oreport>>

runVars == <<slackInit, caller, request, options, rpc, steps, runError,
             status, io, pipelineJobs, report, dateRange>>

clientVars == <<initStarts, clientOps, slackCache, directory, issued, invoked>>

vars == <<extractVars, loadVars, transformVars, orchVars, runVars, clientVars>>

\* ----------------------------------------------------------------- storage
\* storage.js:26-31  base path
getStoragePath == IF backend = "gcs" THEN "gs://bucket/prefix" ELSE "./tmp"

\* Faulty variant: the date of the first day is used for every day
filePathFirstDay(k, d) == [kind |-> k, date |-> 1]

\* extract.js:603 / 678  `${kind}/${date}-${kind}.jsonl.gz`
filePath(k, d) == [kind |-> k, date |-> d]

\* storage.js:227-237  getFullPath: gs://bucket/<prefix/file> or path.resolve
getFullPath(rel) ==
    IF backend = "gcs"
    THEN [root |-> "gs://bucket/prefix", rel |-> rel]
    ELSE [root |-> "/cwd/tmp", rel |-> rel]

\* storage.js:65,87,113  value writeJSONLGz resolves to: the gs:// URI, or
\* path.join(basePath, filePath), which stays relative to the working directory
writtenPath(rel) ==
    IF backend = "gcs"
    THEN [root |-> "gs://bucket/prefix", rel |-> rel]
    ELSE [root |-> "tmp", rel |-> rel]

\* Faulty variant: the resumability check is lost: no day is ever found on disk
fileExistsNever(k, d) == FALSE

\* storage.js:122-137  fileExists: any object at the path counts
fileExists(k, d) == store[<<k, d>>] # "absent"


\* ------------------------------------------------------------ Source Client
\* Outcomes of admin.analytics.getFile for one day (slack.js:158-203).
ApiOutcomes == {"file", "no_file_data", "data_not_available",
                "file_not_yet_available", "file_not_found", "ratelimited",
                "other_error"}

\* Faulty variant: a file that is not found is no longer a known code
knownErrorsNoNotFound == {"data_not_available", "file_not_yet_available"}

\* slack.js:185
knownErrors ==
    {"data_not_available", "file_not_yet_available", "file_not_found"}

\* slack.js:131-218  analytics(date, date, type, false): the array it resolves
\* to, or a rejection.  A rate-limited day sleeps 60 s and resolves with
\* nothing pushed to results; a known empty-data code resolves empty.
analytics(api, payload) ==
    CASE api = "file"         -> [threw |-> FALSE, records |-> payload]
      [] api = "ratelimited"  -> [threw |-> FALSE, records |-> <<>>]
      [] api \in knownErrors  -> [threw |-> FALSE, records |-> <<>>]
      [] OTHER                -> [threw |-> TRUE,  records |-> <<>>]

\* slack.js:179  baseDelay, in ms
baseDelay == 1500
\* slack.js:180  Math.floor(Math.random() * 1500): 0 .. maxJitter - 1
maxJitter == 1500
\* slack.js:190  wait after a rate-limited request, in ms
rateLimitWait == 60000

\* Values of the jitter tried: the least, one in the middle and the greatest
Jitters == {0, maxJitter \div 2, maxJitter - 1}

\* slack.js:158-204  what fetchData sleeps between the answer to its request
\* and its end, in ms: the jittered delay closes the try block, after the
\* records were pushed; the catch sleeps for a rate limit only
sleepAfter(api, jitter) ==
    CASE api = "file"        -> baseDelay + jitter
      [] api = "ratelimited" -> rateLimitWait
      [] OTHER               -> 0

\* The workspace's directory: every member has one e-mail address, E3 one
\* outside the company domain; a record may lack its id.
emailOf(id) == IF id = "E3" THEN EmailOther ELSE EmailMatch

\* Records of an analytics file: an entity id (possibly missing) and, for
\* members, the e-mail address.
Records(k) ==
    IF k = "members"
    THEN {[id |-> i, email |-> emailOf(i)] : i \in Entities \cup {NoId}}
    ELSE [id : Entities \cup {NoId}, email : {NoEmail}]

\* Analytics files of up to MaxRecs records
Payloads(k) == UNION {[1..n -> Records(k)] : n \in 0..MaxRecs}

\* Analytics files of at most one record: a member of the company domain or
\* one outside it
SmallPayloads(k) ==
    {<<>>} \cup {<<r>> : r \in {x \in Records(k) : x.id \in {"E1", "E3"}}}

\* String.prototype.endsWith on character tuples
endsWith(s, suffix) ==
    /\ Len(s) >= Len(suffix)
    /\ SubSeq(s, Len(s) - Len(suffix) + 1, Len(s)) = suffix

\* Faulty variant: the suffix looked for is the domain without its "@"
companyFilterNoAt(recs) ==
    SelectSeq(recs, LAMBDA r : r.email # NoEmail
                               /\ endsWith(r.email, company_domain))

\* extract.js:619-621  company-domain filter of member records
companyFilter(recs) ==
    IF company_domain # <<>>
    THEN SelectSeq(recs, LAMBDA r : r.email # NoEmail
                                    /\ endsWith(r.email, <<"@">> \o company_domain))
    ELSE recs

\* extract.js:617-623 (members) / 692 (channels): records that go on to
\* enrichment
keptRecords(k, recs) == IF k = "members" THEN companyFilter(recs) ELSE recs

\* -------------------------------------------------------- Enrichment Cache
EmptyCache == [e \in Entities |-> "none"]

\* Faulty variant: the map is declared at module level and outlives the call
invocationCacheModuleLevel(c) == c

\* extract.js:597 / 672  const userDetailsMap = new Map() is a local of the
\* call: created empty at entry, unreachable once the call has ended.  `c` is
\* what the map of the call before held.
invocationCache(c) == EmptyCache

\* Map.size
cacheSize(c) == Cardinality({e \in Entities : c[e] # "none"})

\* extract.js:372-373  unique ids of the day that the map does not hold
uncachedIds(recs, c) ==
    {recs[i].id : i \in 1..Len(recs)} \cap {e \in Entities : c[e] = "none"}

\* Faulty variant: the cap is applied per day instead of per invocation
remainingSlotsPerDay(c) == MAX_ENRICHMENT

\* extract.js:377
remainingSlots(c) == MAX_ENRICHMENT - cacheSize(c)

Min(a, b) == IF a <= b THEN a ELSE b

\* Sequences without repetition of exactly n elements of S
Arrangements(S, n) ==
    {q \in [1..n -> S] : \A i, j \in 1..n : i # j => q[i] # q[j]}

\* extract.js:379-401  the possible values of usersToFetch: nothing once the
\* cap is reached, otherwise a shuffle of the uncached ids cut to the
\* remaining slots
fetchPlans(recs, c) ==
    IF remainingSlots(c) <= 0
    THEN {<<>>}
    ELSE Arrangements(uncachedIds(recs, c),
                      Min(remainingSlots(c), Cardinality(uncachedIds(recs, c))))

\* Faulty variant: records whose id has no cached entry are dropped
mergeEnrichedCachedOnly(recs, c) ==
    LET kept == SelectSeq(recs, LAMBDA r : r.id \in Entities /\ c[r.id] # "none")
    IN  [i \in 1..Len(kept) |->
            [id |-> kept[i].id, email |-> kept[i].email,
             ENRICHED |-> c[kept[i].id]]]

\* extract.js:447-450  records.map(r => ({...r, ENRICHED: map.get(id) || null}))
mergeEnriched(recs, c) ==
    [i \in 1..Len(recs) |->
        [id |-> recs[i].id, email |-> recs[i].email,
         ENRICHED |-> IF recs[i].id \in Entities /\ c[recs[i].id] # "none"
                      THEN c[recs[i].id] ELSE "null"]]

\* Faulty variant: a failed lookup is not cached
detailEntryNoSentinel(ok) == IF ok THEN "ok" ELSE "none"

\* slack.js:694-738 with extract.js:425-438  what the map holds for an id once
\* its lookup settled: the detail object, or the {error} sentinel
detailEntry(ok) == IF ok THEN "ok" ELSE "error"

\* ------------------------------------------------------------ Extract Stage
Outcomes == {"none", "skipped", "threw", "ratelimited", "nodata", "filtered",
             "written", "writefail"}

NoOutcome == [d \in Days |-> "none"]
ZeroDays == [d \in Days |-> 0]
ZeroIds == [e \in Entities |-> 0]
NoLast == [valid |-> FALSE, kind |-> "members", startDay |-> 1, endDay |-> 1,
           threw |-> {}, present |-> {}]

\* storage.js:63-115  ways a writeJSONLGz call can end
WriteResults == {"ok", "fail_before_open", "fail_after_open"}

\* Faulty variant: a write that resolves leaves no file behind
writeEffectLost(result, old) == old

\* storage.js:85-89 (cloud: the object appears on finish only) and
\* storage.js:93-111 (local: createWriteStream opens the final path, then the
\* gzip pipeline fills it): the state of the path after the call
writeEffect(result, old) ==
    CASE result = "ok" -> "complete"
      [] result = "fail_after_open" /\ backend = "local" -> "partial"
      [] OTHER -> old

\* ---------------------------------------------------------------- Load Stage
Phases == {"events", "profiles"}
ZeroPhases == [p \in Phases |-> 0]
\* load.js:137-140  an entry of `results` before its phase has run
initialEntry == [success |-> FALSE, error |-> "null"]

\* load.js:150-153 / 172-175  an entry of `results` after its phase: the
\* outcome, the error message or null, the number of files and the response
phaseEntry(ok, n) ==
    [success |-> ok, error |-> IF ok THEN "null" ELSE "message",
     count |-> n, result |-> IF ok THEN "response" ELSE "undefined"]

NoResult == [returned |-> FALSE, uploaded |-> 0, failed |-> 0,
             results |-> [events |-> initialEntry, profiles |-> initialEntry]]

\* no load call has been made
LoadIdle ==
    /\ lpc = "idle"
    /\ lkind = "members" /\ lfiles = <<>> /\ cleanup = FALSE
    /\ attempt = 1
    /\ evResult = "pending" /\ prResult = "pending"
    /\ uploaderCalls = ZeroPhases /\ thrown = ZeroPhases
    /\ sent = {} /\ sleeps = <<>>
    /\ delIdx = 1 /\ deleteCalls = 0 /\ deleteFailed = 0
    /\ lresult = NoResult
    /\ loads = 0

\* ------------------------------------------------------ Profile transforms
\* JavaScript values by what the destination distinguishes: a key that is
\* not there, a scalar (string, number, boolean), null, an array, an object
Values == {"absent", "scalar", "null", "array", "object"}

\* Keys of the user object of users.info (its profile is a nested object),
\* of the profile of users.profile.get and of the channel of
\* conversations.info
UserKeys == {"real_name", "profile"}
ProfileKeys == {"real_name", "fields", "image_24"}
ChannelKeys == {"name", "topic", "previous_names"}

\* members.js:87-91  keys taken from the member list
MemberLookupKeys == {"avatar", "title", "name", "display_name", "timezone"}
\* members.js:107-111  keys taken from the analytics record
MemberRecordKeys == {"slack_id", "$email", "slack_team_id", "link", "is_active"}
\* members.js:220-224  keys always taken from the channel list
ChannelLookupKeys == {"$name", "channel_name", "link", "$email", "created"}
\* members.js:226-243  keys taken from the channel list when they are set
ChannelOptionalKeys == {"purpose", "topic", "external", "private", "members"}

AllKeys == UserKeys \cup ProfileKeys \cup ChannelKeys \cup MemberLookupKeys
           \cup MemberRecordKeys \cup ChannelLookupKeys
           \cup ChannelOptionalKeys \cup {"date"}

\* {}
NoFields == [k \in AllKeys |-> "absent"]

\* the objects with keys among `keys`
Objects(keys) ==
    {[k \in AllKeys |-> IF k \in keys THEN g[k] ELSE "absent"] :
        g \in [keys -> Values]}

\* {...a, ...b}
spread(a, b) == [k \in AllKeys |-> IF b[k] # "absent" THEN b[k] ELSE a[k]]

\* a with the keys of ks set to scalars
withScalars(a, ks) == [k \in AllKeys |-> IF k \in ks THEN "scalar" ELSE a[k]]

\* The values ENRICHED can have in a record read from a DayFile: none (a
\* file of an older run), null, the error entry, or the details
EnrichedValues(k) ==
    {[form |-> f, user |-> NoFields, profile |-> NoFields, channel |-> NoFields] :
        f \in {"undefined", "null", "error"}}
    \cup
    (IF k = "members"
     THEN {[form |-> "details", user |-> u, profile |-> p, channel |-> NoFields] :
              u \in Objects(UserKeys), p \in Objects(ProfileKeys)}
     ELSE {[form |-> "details", user |-> NoFields, profile |-> NoFields,
            channel |-> c] : c \in Objects(ChannelKeys)})

\* The entity in the list of the context: missing, found without the optional
\* attributes (member without profile, channel without purpose, topic and
\* flags), or found with them
ContextEntries == {"missing", "bare", "full"}

\* A record of a DayFile and the context a transform is called with
TransformInputs ==
    UNION {[kind : {k}, hasEmail : BOOLEAN, ENRICHED : EnrichedValues(k),
            listed : ContextEntries] : k \in Kinds}

NoInput == [kind |-> "members", hasEmail |-> FALSE,
            ENRICHED |-> [form |-> "undefined", user |-> NoFields,
                          profile |-> NoFields, channel |-> NoFields],
            listed |-> "missing"]

NoOutput == [result |-> "none", set |-> NoFields]

\* members.js:96-101  the loop that drops arrays, objects (typeof null is
\* "object" too) and image_* keys
stripComplex(fields) ==
    [k \in AllKeys |->
        IF fields[k] \in {"array", "object", "null"} \/ k = "image_24"
        THEN "absent" ELSE fields[k]]

\* members.js:71-116  transformMemberProfile: null for a record without
\* e-mail; destructuring a null ENRICHED throws (the default applies to
\* undefined only)
transformMemberProfile(r) ==
    IF ~r.hasEmail THEN [result |-> "skip", set |-> NoFields]
    ELSE IF r.ENRICHED.form = "null" THEN [result |-> "threw", set |-> NoFields]
    ELSE LET merged == spread(r.ENRICHED.user, r.ENRICHED.profile)
             looked == IF r.listed = "full"
                       THEN withScalars(merged, MemberLookupKeys) ELSE merged
         IN  [result |-> "profile",
              set |-> withScalars(stripComplex(looked), MemberRecordKeys)]

\* members.js:204-264  transformChannelProfile: the loop over the fields
\* deletes nothing (members.js:247-251)
transformChannelProfile(r) ==
    LET fields == r.ENRICHED.channel
        looked == CASE r.listed = "missing" -> fields
                    [] r.listed = "bare" -> withScalars(fields, ChannelLookupKeys)
                    [] OTHER -> withScalars(fields, ChannelLookupKeys
                                                    \cup ChannelOptionalKeys)
    IN  [result |-> "profile", set |-> withScalars(looked, {"date"})]

\* members.js:28-60  transformMemberEvent: null for a record without e-mail;
\* the ENRICHED key is taken off the record by a destructuring that reads no
\* property of it, so a null passes; the properties are the record's scalars
\* and, for a listed member, name, display_name and timezone
transformMemberEvent(r) ==
    IF ~r.hasEmail THEN [result |-> "skip", set |-> NoFields]
    ELSE [result |-> "event",
          set |-> withScalars(NoFields,
                     {"date"} \cup
                     (CASE r.listed = "missing" -> {}
                        [] r.listed = "bare" -> {"name", "timezone"}
                        [] OTHER -> {"name", "display_name", "timezone"}))]

\* members.js:151-194  transformChannelEvent: never skips; ENRICHED is taken
\* off in the same way
transformChannelEvent(r) ==
    [result |-> "event",
     set |-> withScalars(NoFields,
                {"date"} \cup
                (CASE r.listed = "missing" -> {}
                   [] r.listed = "bare" -> {"name", "link"}
                   [] OTHER -> {"name", "link"} \cup ChannelOptionalKeys))]

\* no transform has been called
TransformIdle == tin = NoInput /\ tout = NoOutput

\* ------------------------------------------------------ Pipeline run (idle)
NoOpts == [pipelines |-> <<>>, extractOnly |-> FALSE, loadOnly |-> FALSE,
           cleanup |-> FALSE, endDay |-> 1]

NoExtractEntry == [present |-> FALSE, extracted |-> 0, skipped |-> 0,
                   files |-> <<>>]
NoLoadEntry == [present |-> FALSE, uploaded |-> 0, failed |-> 0]
NoReport == [extract |-> [k \in Kinds |-> NoExtractEntry],
             load |-> [k \in Kinds |-> NoLoadEntry]]

\* no run has been started
OrchIdle ==
    /\ ostage = "idle" /\ oopts = NoOpts /\ otodo = <<>> /\ oreport = NoReport

\* ----------------------------------------------------------- Run parameters
\* JavaScript values of the run parameters: the type and the text ToString
\* gives, as a character tuple.
Digits == <<"0", "1", "2", "3", "4", "5", "6", "7", "8", "9">>
isDigit(c) == \E i \in 1..10 : Digits[i] = c
digitValue(c) == (CHOOSE i \in 1..10 : Digits[i] = c) - 1

RECURSIVE decimal(_)
decimal(n) ==
    IF n < 10 THEN <<Digits[n + 1]>>
    ELSE decimal(n \div 10) \o <<Digits[(n % 10) + 1]>>

\* Number.prototype.toString of an integer
numberToString(n) == IF n < 0 THEN <<"-">> \o decimal(-n) ELSE decimal(n)

TrueText == <<"t", "r", "u", "e">>
FalseText == <<"f", "a", "l", "s", "e">>
undefined == [type |-> "undefined", text |-> <<>>]
NaN == [type |-> "number", text |-> <<"N", "a", "N">>]
Str(s) == [type |-> "string", text |-> s]
Num(n) == [type |-> "number", text |-> numberToString(n)]
Bool(b) == [type |-> "boolean", text |-> IF b THEN TrueText ELSE FalseText]

RECURSIVE leadingDigits(_)
leadingDigits(s) ==
    IF s = <<>> \/ ~isDigit(Head(s)) THEN <<>>
    ELSE <<Head(s)>> \o leadingDigits(Tail(s))

RECURSIVE digitsValue(_)
digitsValue(ds) ==
    IF ds = <<>> THEN 0
    ELSE 10 * digitsValue(SubSeq(ds, 1, Len(ds) - 1)) + digitValue(ds[Len(ds)])

\* parseInt(value): the text of the value, an optional sign, then the
\* longest run of decimal digits; whatever follows the digits is ignored and
\* no digit at all gives NaN
parseInt(v) ==
    LET s == v.text
        neg == s # <<>> /\ Head(s) = "-"
        ds == leadingDigits(IF neg THEN Tail(s) ELSE s)
    IN  IF ds = <<>> THEN NaN
        ELSE Num(IF neg THEN 0 - digitsValue(ds) ELSE digitsValue(ds))

isNaN(v) == v = NaN

\* the integer a number value holds
intOf(v) ==
    IF Head(v.text) = "-" THEN 0 - digitsValue(Tail(v.text))
    ELSE digitsValue(v.text)

\* ToBoolean
truthy(v) ==
    CASE v.type = "undefined" -> FALSE
      [] v.type = "string"    -> v.text # <<>>
      [] v.type = "boolean"   -> v.text = TrueText
      [] OTHER                -> ~isNaN(v) /\ intOf(v) # 0

\* run-pipeline.js:61  /^\d{4}-\d{2}-\d{2}$/.test(value)
dateRegex(v) ==
    LET s == v.text
    IN  /\ Len(s) = 10
        /\ \A i \in {1, 2, 3, 4, 6, 7, 9, 10} : isDigit(s[i])
        /\ s[5] = "-" /\ s[8] = "-"

\* Error messages, cut into pieces so that the phrases looked for are pieces
backfillMessage ==
    <<"Parameter", " \"backfill\" is ", "mutually exclusive",
      " with \"days\", \"start_date\", and \"end_date\"">>
exclusiveMessage ==
    <<"Parameter", "s \"days\" and \"start_date/end_date\" are ",
      "mutually exclusive", ". Use one or the other.">>
daysMessage == <<"Parameter", " \"days\" must be a ", "positive integer">>
startDateMessage ==
    <<"Parameter", " \"start_date\" must be in ", "YYYY-MM-DD", " format">>
endDateMessage ==
    <<"Parameter", " \"end_date\" must be in ", "YYYY-MM-DD", " format">>
\* slack.js:94
authMessage == <<"Slack authentication failed">>
\* Texts of the errors the Source Client passes on from the platform and the
\* network (slack.js:196-203 rethrows them as they come)
UpstreamMessages ==
    {<<"An API error occurred: ", "invalid_auth">>,
     <<"A request error occurred: ", "Parameter", " \"date\" is not valid">>}

\* String.prototype.includes, for a phrase that is a piece
includes(message, phrase) == \E i \in 1..Len(message) : message[i] = phrase

NoMessage == <<>>

\* Faulty variant: an end date alone does not count as a date range
hasDateRangeStartOnly(p) == p.start_date # undefined

\* run-pipeline.js:46
hasDateRange(p) == p.start_date # undefined \/ p.end_date # undefined

\* run-pipeline.js:45
hasDays(p) == p.days # undefined

\* run-pipeline.js:37
backfillOn(p) == p.backfill = Str(TrueText) \/ p.backfill = Bool(TRUE)

Throw(message) == [threw |-> TRUE, message |-> message]
Return(p) == [threw |-> FALSE, message |-> NoMessage, params |-> p]

\* run-pipeline.js:35-71  parseParameters(params): the validated parameters,
\* or the error it throws
parseParameters(p) ==
    IF backfillOn(p)
    THEN IF p.days # undefined \/ p.start_date # undefined
            \/ p.end_date # undefined
         THEN Throw(backfillMessage)
         ELSE Return([p EXCEPT !.env = "backfill"])
    ELSE IF hasDays(p) /\ hasDateRange(p) THEN Throw(exclusiveMessage)
    ELSE LET days == IF p.days # undefined THEN parseInt(p.days) ELSE p.days
         IN  IF p.days # undefined /\ (isNaN(days) \/ intOf(days) < 1)
             THEN Throw(daysMessage)
             ELSE IF truthy(p.start_date) /\ ~dateRegex(p.start_date)
             THEN Throw(startDateMessage)
             ELSE IF truthy(p.end_date) /\ ~dateRegex(p.end_date)
             THEN Throw(endDateMessage)
             ELSE Return([p EXCEPT !.days = days])

ParamKeys == {"backfill", "days", "start_date", "end_date"}

\* index.js:41-49  { ...body, ...normalizedQuery }: a key of the query wins
mergeParams(body, query) ==
    [k \in DOMAIN query |->
        IF k \in ParamKeys /\ query[k] # undefined THEN query[k] ELSE body[k]]

\* index.js:40-100  parseParameters(req): the checks of
\* run-pipeline.js:35-71, statement for statement, on the merged object
parseRequest(body, query) == parseParameters(mergeParams(body, query))

\* index.js:176  status of the error response
statusFor(message) ==
    IF includes(message, "Parameter") \/ includes(message, "mutually exclusive")
    THEN 400 ELSE 500

\* Values tried for `days`: texts of up to MaxDaysLen characters, and numbers
DaysAlphabet == {"0", "7", "-", "a", "."}
DaysTexts == UNION {[1..n -> DaysAlphabet] : n \in 0..MaxDaysLen}
D_2024_01_01 == <<"2", "0", "2", "4", "-", "0", "1", "-", "0", "1">>
D_2024_01_31 == <<"2", "0", "2", "4", "-", "0", "1", "-", "3", "1">>
D_2024_1_1 == <<"2", "0", "2", "4", "-", "1", "-", "1">>
D_24_01_01 == <<"2", "4", "-", "0", "1", "-", "0", "1">>
D_2024s01s01 == <<"2", "0", "2", "4", "/", "0", "1", "/", "0", "1">>

Params(b, d, s, e) ==
    [backfill |-> b, days |-> d, start_date |-> s, end_date |-> e,
     env |-> "", pipelines |-> {}]
NoParams == Params(undefined, undefined, undefined, undefined)

\* Query strings: every value is a text
Queries ==
    {Params(b, d, s, e) :
        b \in {undefined, Str(TrueText), Str(FalseText)},
        d \in {undefined} \cup {Str(t) : t \in DaysTexts},
        s \in {undefined, Str(<<>>), Str(D_2024_01_01), Str(D_2024_1_1)},
        e \in {undefined, Str(D_2024_01_31), Str(D_2024s01s01)}}

\* JSON bodies
Bodies == {NoParams, Params(Bool(TRUE), Num(7), undefined, Str(D_24_01_01))}

\* Options of a direct runPipeline call
DirectOptions ==
    {[Params(b, d, s, e) EXCEPT !.pipelines = pl] :
        b \in {undefined, Bool(TRUE)},
        d \in {undefined, Num(7), Num(0), Num(0 - 5), Str(<<"a">>)},
        s \in {undefined, Str(D_2024_01_31), Str(D_2024_1_1)},
        e \in {undefined, Str(D_2024_01_01)},
        pl \in {{}, {"members"}}}

\* the two jobs of an entity pipeline (run-pipeline.js:208-211, 221-224)
jobLabels(k) ==
    IF k = "members" THEN <<"slack-members", "slack-member-profiles">>
    ELSE <<"slack-channels", "slack-channel-profiles">>

\* Ways an upload job can end
JobOutcomes == {"imported", "upload_rejected", "executor_threw"}

\* tasks.js:109-151  how the promise of one job of uploadTask settles, as
\* Promise.allSettled reports it: a rejected upload resolves the promise
\* with { label, error }; only a throw inside the executor rejects it
uploadTask(result) ==
    IF result = "executor_threw"
    THEN [status |-> "rejected", error |-> TRUE]
    ELSE [status |-> "fulfilled", error |-> (result = "upload_rejected")]

\* tasks.js:351-420  how the promise of one job of cloudTask settles: a
\* stream or storage error resolves it with { label, error } as well
cloudTask(result) ==
    IF result = "executor_threw"
    THEN [status |-> "rejected", error |-> TRUE]
    ELSE [status |-> "fulfilled", error |-> (result = "upload_rejected")]

\* run-pipeline.js:125-143  getWorkFunction, in a production deployment
getWorkFunction(envMode) ==
    IF envMode = "backfill" THEN "cloudTask" ELSE "uploadTask"

\* a job of the run, as pushed by work(jobs, stats)
newJob(label, task) ==
    [label |-> label, task |-> task, status |-> "pending", error |-> FALSE]

settled(job, result) ==
    LET end == IF job.task = "cloudTask" THEN cloudTask(result)
               ELSE uploadTask(result)
    IN  [job EXCEPT !.status = end.status, !.error = end.error]

\* run-pipeline.js:235-247  success / failed of the run report
reportOf(jobs) ==
    [returned |-> TRUE,
     success |-> SelectSeq(jobs, LAMBDA j : j.status = "fulfilled"),
     failed  |-> SelectSeq(jobs, LAMBDA j : j.status = "rejected")]

NoRunReport == [returned |-> FALSE, success |-> <<>>, failed |-> <<>>]
NoError == [message |-> NoMessage, raisedBy |-> "none"]
NoIO == [source |-> 0, blob |-> 0, upload |-> 0]

\* Faulty variant: the first entity pipeline is fetched before the parameters
\* are validated
runStepsFetchFirst(pipelines) ==
    (IF "members" \in pipelines THEN <<"members">> ELSE <<>>)
    \o <<"parseParameters">>
    \o (IF "channels" \in pipelines THEN <<"channels">> ELSE <<>>)
    \o <<"allSettled">>

\* run-pipeline.js:185-230  the steps of runPipeline, in order
runSteps(pipelines) ==
    <<"parseParameters">>
    \o (IF "members" \in pipelines THEN <<"members">> ELSE <<>>)
    \o (IF "channels" \in pipelines THEN <<"channels">> ELSE <<>>)
    \o <<"allSettled">>

\* run-pipeline.js:189  options.pipelines || ['members', 'channels']; {} is
\* a call without the option
pipelinesOf(opts) ==
    IF opts.pipelines = {} THEN {"members", "channels"}
    ELSE opts.pipelines

\* Days from 1970-01-01 to the day d of month m of year y of the Gregorian
\* calendar, as Date.UTC counts them
daysFromCivil(y, m, d) ==
    LET yy == IF m <= 2 THEN y - 1 ELSE y
        era == yy \div 400
        yoe == yy - era * 400
        mp == (m + 9) % 12
        doy == (153 * mp + 2) \div 5 + d - 1
        doe == yoe * 365 + yoe \div 4 - yoe \div 100 + doy
    IN  era * 146097 + doe - 719468

\* dayjs.utc('YYYY-MM-DD'): the day the text names
dayjsUtc(s) ==
    daysFromCivil(digitsValue(SubSeq(s, 1, 4)), digitsValue(SubSeq(s, 6, 7)),
                  digitsValue(SubSeq(s, 9, 10)))

\* run-pipeline.js:84  BACKFILL_DAYS = 365 + 30
BACKFILL_DAYS == 395
\* run-pipeline.js:99  DAYS of a production deployment
productionDays == 2
\* run-pipeline.js:86, 105  the window ends 2 days after today
endLag == 2

\* run-pipeline.js:78-118  getDateRange(params) on the day `now`: simpleStart
\* and simpleEnd, as days
getDateRange(p, now) ==
    IF p.env = "backfill"
    THEN [start |-> now - BACKFILL_DAYS, end |-> now + endLag]
    ELSE LET DAYS == IF truthy(p.days) THEN intOf(p.days) ELSE productionDays
         IN  [start |-> IF truthy(p.start_date)
                        THEN dayjsUtc(p.start_date.text) ELSE now - DAYS,
              end   |-> IF truthy(p.end_date)
                        THEN dayjsUtc(p.end_date.text) ELSE now + endLag]

NoRange == [start |-> 0, end |-> 0]

\* Days on which the run is made: between the dates tried and after them
D_2024_01_15 == <<"2", "0", "2", "4", "-", "0", "1", "-", "1", "5">>
D_2024_03_01 == <<"2", "0", "2", "4", "-", "0", "3", "-", "0", "1">>
Todays == {D_2024_01_15, D_2024_03_01}

\* no request has arrived and no run was started; the Source Client module
\* has been loaded, so its first auth.test is on its way (slack.js:847)
RunIdle ==
    /\ slackInit = "user"
    /\ caller = "none"
    /\ request = NoParams
    /\ options = NoParams
    /\ rpc = "idle"
    /\ steps = <<>>
    /\ runError = NoError
    /\ status = 0
    /\ io = NoIO
    /\ pipelineJobs = <<>>
    /\ report = NoRunReport
    /\ dateRange = NoRange

\* ------------------------------------------------------ Source Client calls
\* Callers that can be inside a client operation at the same time (requests
\* served concurrently by index.js)
Callers == {"c1", "c2"}

\* slack.js:869-885  operations of slackService
ClientOperations ==
    {"analytics", "getChannels", "getUsers", "getUserDetails",
     "getChannelDetails", "getUserMessages", "getChannelMessages"}

\* slack.js:133, 230, 261, 695, 725  operations that begin with
\* `await ensureSlackInitialized()`; getUserMessages (slack.js:325-365) and
\* getChannelMessages (slack.js:579-611) go to their request without it
guarded(o) ==
    o \in {"analytics", "getChannels", "getUsers", "getUserDetails",
           "getChannelDetails"}

\* slack.js:228, 259  the operations that list a directory
listing(o) == o \in {"getChannels", "getUsers"}

\* the key of `cache` a listing operation uses
cacheKey(o) == IF o = "getUsers" THEN "members" ELSE "channels"

\* a listing is the sequence of its pages; a page is known by the version of
\* the directory it was read from
NoListing == <<>>

NoOp == [op |-> "none", at |-> "idle", pages |-> <<>>, result |-> NoListing]

\* slack.js:232 / 263  if (cache.channels) return cache.channels
cacheHit(o) == slackCache[cacheKey(o)] # NoListing

\* slack.js:832  if (!slackInitPromise): "none" is a promise not yet made
initNeeded == slackInit = "none"

\* the process has loaded slack.js, which called ensureSlackInitialized once
\* (slack.js:847); no operation has been invoked
ClientIdle ==
    /\ initStarts = 1
    /\ clientOps = [c \in Callers |-> NoOp]
    /\ slackCache = [k \in Kinds |-> NoListing]
    /\ directory = 1
    /\ issued = {}
    /\ invoked = 0

Init ==
    /\ backend \in {"local", "gcs"}
    /\ store = [p \in Kinds \X Days |-> "absent"]
    /\ pc = "idle"
    /\ kind = "members" /\ startDay = 1 /\ endDay = 1 /\ day = 1
    /\ extracted = 0 /\ skipped = 0 /\ files = <<>>
    /\ cache = EmptyCache
    /\ data = <<>> /\ toFetch = <<>> /\ active = {} /\ enriched = <<>>
    /\ outcome = NoOutcome /\ fetches = ZeroDays /\ lookups = ZeroIds
    /\ writes = ZeroDays /\ overwrote = FALSE
    /\ last = NoLast /\ rerun = FALSE /\ calls = 0
    /\ groupKeySet = TRUE
    /\ LoadIdle
    /\ TransformIdle
    /\ OrchIdle
    /\ RunIdle
    /\ ClientIdle

\* extract.js:583-598 / 658-673  entry of extract*Analytics
StartExtract(k, s, e) ==
    /\ pc = "idle"
    /\ calls < MaxCalls
    /\ calls' = calls + 1
    /\ kind' = k /\ startDay' = s /\ endDay' = e /\ day' = s
    /\ extracted' = 0 /\ skipped' = 0 /\ files' = <<>>
    /\ cache' = invocationCache(cache)
    /\ data' = <<>> /\ toFetch' = <<>> /\ active' = {} /\ enriched' = <<>>
    /\ outcome' = NoOutcome /\ fetches' = ZeroDays /\ lookups' = ZeroIds
    /\ writes' = ZeroDays /\ overwrote' = FALSE
    /\ rerun' = (last.valid /\ last.kind = k /\ last.startDay = s
                 /\ last.endDay = e)
    /\ pc' = IF s > e THEN "done" ELSE "check"
    /\ UNCHANGED <<loadVars, transformVars, clientVars, runVars>>
    /\ UNCHANGED <<backend, store, last>>

\* Faulty variant: the last day of the range is left out
NextDayExclusive ==
    /\ day' = day + 1
    /\ pc' = IF day + 1 >= endDay THEN "done" ELSE "check"

\* extract.js:600  for (const date of daysToFetch): next iteration or loop exit
NextDay ==
    /\ day' = day + 1
    /\ pc' = IF day + 1 > endDay THEN "done" ELSE "check"

\* Faulty variant: an error of one day ends the loop
CatchDayAbort == day' = day /\ pc' = "done"

\* Faulty variant: an error of one day is thrown on to the caller
CatchDayRethrow == day' = day /\ pc' = "crashed"

\* extract.js:640-642  catch of the loop body: log, go on with the next day
CatchDay == NextDay

\* Faulty variant: a skipped day is counted but its path is not reported
CheckSkipNoPath ==
    /\ pc = "check"
    /\ fileExists(kind, day)
    /\ skipped' = skipped + 1
    /\ outcome' = [outcome EXCEPT ![day] = "skipped"]
    /\ NextDay
    /\ UNCHANGED <<loadVars, transformVars, clientVars, runVars, orchVars>>
    /\ UNCHANGED <<backend, store, kind, startDay, endDay, extracted, files,
                   cache, data, toFetch, active, enriched, fetches, lookups, writes,
                   overwrote, last, rerun, calls>>

\* extract.js:606-611  the DayFile exists: count it, record its path, continue
CheckSkip ==
    /\ pc = "check"
    /\ fileExists(kind, day)
    /\ skipped' = skipped + 1
    /\ files' = Append(files, getFullPath(filePath(kind, day)))
    /\ outcome' = [outcome EXCEPT ![day] = "skipped"]
    /\ NextDay
    /\ UNCHANGED <<loadVars, transformVars, clientVars, runVars, orchVars>>
    /\ UNCHANGED <<backend, store, kind, startDay, endDay, extracted,
                   cache, data, toFetch, active, enriched, fetches, lookups, writes,
                   overwrote, last, rerun, calls>>

\* extract.js:606  the DayFile does not exist: fall through to the fetch
CheckMiss ==
    /\ pc = "check"
    /\ ~fileExists(kind, day)
    /\ pc' = "fetch"
    /\ UNCHANGED <<loadVars, transformVars, clientVars, runVars, orchVars>>
    /\ UNCHANGED <<backend, store, kind, startDay, endDay, day,
                   extracted, skipped, files, cache, data, toFetch, active, enriched,
                   outcome, fetches, lookups, writes, overwrote, last, rerun,
                   calls>>

\* extract.js:606 with storage.js:130  file.exists() rejects (cloud backend):
\* the await is outside the try, the rejection leaves extract
CheckThrows ==
    /\ pc = "check"
    /\ backend = "gcs"
    /\ pc' = "crashed"
    /\ UNCHANGED <<loadVars, transformVars, clientVars, runVars, orchVars>>
    /\ UNCHANGED <<backend, store, kind, startDay, endDay, day,
                   extracted, skipped, files, cache, data, toFetch, active, enriched,
                   outcome, fetches, lookups, writes, overwrote, last, rerun,
                   calls>>

\* extract.js:613-626 / 688-695  fetch the day, filter, plan the enrichment
FetchDay(api, payload) ==
    /\ pc = "fetch"
    /\ fetches' = [fetches EXCEPT ![day] = @ + 1]
    /\ LET res == analytics(api, payload)
           kept == keptRecords(kind, res.records)
       IN  IF res.threw \/ Len(kept) = 0
           THEN /\ outcome' = [outcome EXCEPT ![day] =
                                 IF res.threw THEN "threw"
                                 ELSE IF api = "ratelimited" THEN "ratelimited"
                                 ELSE IF Len(res.records) = 0 THEN "nodata"
                                 ELSE "filtered"]
                /\ IF res.threw THEN CatchDay ELSE NextDay
                /\ UNCHANGED <<data, toFetch, active, enriched>>
           ELSE /\ data' = kept
                /\ \E plan \in fetchPlans(kept, cache) :
                      /\ toFetch' = plan
                      /\ IF plan = <<>>
                         THEN /\ enriched' = mergeEnriched(kept, cache)
                              /\ pc' = "write"
                         ELSE /\ enriched' = <<>>
                              /\ pc' = "lookup"
                /\ UNCHANGED <<outcome, day, active>>
    /\ UNCHANGED <<loadVars, transformVars, clientVars, runVars, orchVars>>
    /\ UNCHANGED <<backend, store, kind, startDay, endDay, extracted,
                   skipped, files, cache, lookups, writes, overwrote, last,
                   rerun, calls>>

\* extract.js:412  pLimit(1)
pLimitConcurrency == 1

\* Faulty variant: the limiter never holds a lookup back
slotFreeAlways(act) == TRUE

\* extract.js:412-417  the limiter starts a queued task while fewer than
\* its concurrency are running
slotFree(act) == Cardinality(act) < pLimitConcurrency

\* slack.js:699-702  getUserDetails awaits users.info and users.profile.get
\* together; slack.js:728  getChannelDetails awaits conversations.info
requestsPerLookup(k) == IF k = "members" THEN 2 ELSE 1

\* requests to the detail endpoints that the running lookups have issued
\* and still await
inflightRequests == Cardinality(active) * requestsPerLookup(kind)

\* extract.js:417-425  the limiter starts the next queued lookup, which
\* issues its requests
IssueLookup ==
    /\ pc = "lookup"
    /\ toFetch # <<>>
    /\ slotFree(active)
    /\ active' = active \cup {Head(toFetch)}
    /\ toFetch' = Tail(toFetch)
    /\ UNCHANGED <<loadVars, transformVars, clientVars, runVars, orchVars>>
    /\ UNCHANGED <<backend, store, pc, kind, startDay, endDay, day,
                   extracted, skipped, files, cache, data, enriched, outcome,
                   fetches, lookups, writes, overwrote, last, rerun, calls>>

\* extract.js:425-450  a started lookup settles: the map takes the details or
\* the error entry; the last one is followed by the merge
Lookup(ok) ==
    /\ pc = "lookup"
    /\ \E id \in active :
          LET c == [cache EXCEPT ![id] = detailEntry(ok)]
          IN  /\ lookups' = [lookups EXCEPT ![id] = @ + 1]
              /\ cache' = c
              /\ active' = active \ {id}
              /\ IF toFetch = <<>> /\ active \ {id} = {}
                 THEN enriched' = mergeEnriched(data, c) /\ pc' = "write"
                 ELSE enriched' = enriched /\ pc' = "lookup"
    /\ UNCHANGED <<loadVars, transformVars, clientVars, runVars, orchVars>>
    /\ UNCHANGED <<backend, store, kind, startDay, endDay, day,
                   extracted, skipped, files, data, toFetch, outcome, fetches,
                   writes, overwrote, last, rerun, calls>>

\* extract.js:629-632 / 698-701  write the DayFile; a rejection is caught by
\* the loop body's catch (extract.js:640)
WriteDay(result) ==
    /\ pc = "write"
    /\ writes' = [writes EXCEPT ![day] = @ + 1]
    /\ overwrote' = (overwrote \/ store[<<kind, day>>] # "absent")
    /\ store' = [store EXCEPT ![<<kind, day>>] = writeEffect(result, @)]
    /\ IF result = "ok"
       THEN /\ extracted' = extracted + 1
            /\ files' = Append(files, writtenPath(filePath(kind, day)))
            /\ outcome' = [outcome EXCEPT ![day] = "written"]
            /\ NextDay
       ELSE /\ outcome' = [outcome EXCEPT ![day] = "writefail"]
            /\ CatchDay
            /\ UNCHANGED <<extracted, files>>
    /\ data' = <<>> /\ toFetch' = <<>> /\ active' = {} /\ enriched' = <<>>
    /\ UNCHANGED <<loadVars, transformVars, clientVars, runVars, orchVars>>
    /\ UNCHANGED <<backend, kind, startDay, endDay, skipped, cache,
                   fetches, lookups, last, rerun, calls>>

\* extract.js:645-649  return {extracted, skipped, files}
ReturnExtract ==
    /\ pc = "done"
    /\ pc' = "idle"
    /\ last' = [valid |-> TRUE, kind |-> kind, startDay |-> startDay,
                endDay |-> endDay,
                threw |-> {d \in Days : outcome[d] = "threw"},
                present |-> {d \in startDay..endDay : fileExists(kind, d)}]
    /\ extracted' = 0 /\ skipped' = 0 /\ files' = <<>>
    /\ cache' = invocationCache(cache)
    /\ outcome' = NoOutcome /\ fetches' = ZeroDays /\ lookups' = ZeroIds
    /\ writes' = ZeroDays /\ overwrote' = FALSE /\ rerun' = FALSE
    /\ UNCHANGED <<loadVars, transformVars, clientVars, runVars>>
    /\ UNCHANGED <<backend, store, kind, startDay, endDay, day,
                   data, toFetch, active, enriched, calls>>

\* the rejection of extract reaches the caller; the process goes on
AbortExtract ==
    /\ pc = "crashed"
    /\ pc' = "idle"
    /\ last' = NoLast
    /\ extracted' = 0 /\ skipped' = 0 /\ files' = <<>>
    /\ cache' = invocationCache(cache)
    /\ outcome' = NoOutcome /\ fetches' = ZeroDays /\ lookups' = ZeroIds
    /\ writes' = ZeroDays /\ overwrote' = FALSE /\ rerun' = FALSE
    /\ UNCHANGED <<loadVars, transformVars, clientVars, runVars>>
    /\ UNCHANGED <<backend, store, kind, startDay, endDay, day,
                   data, toFetch, active, enriched, calls>>

\* A first extract call over days 1..e, then repetitions of the same call;
\* each day's analytics file holds at most one record.
Next ==
    \/ \E k \in Kinds, e \in Days :
          calls = 0 /\ StartExtract(k, 1, e) /\ UNCHANGED orchVars
    \/ /\ last.valid
       /\ StartExtract(last.kind, last.startDay, last.endDay)
       /\ UNCHANGED orchVars
    \/ CheckSkip
    \/ CheckMiss
    \/ CheckThrows
    \/ /\ pc = "fetch"
       /\ \E api \in ApiOutcomes :
            \E payload \in (IF api = "file" THEN SmallPayloads(kind)
                                              ELSE {<<>>}) :
               FetchDay(api, payload)
    \/ IssueLookup
    \/ \E ok \in BOOLEAN : Lookup(ok)
    \/ \E result \in WriteResults : WriteDay(result)
    \/ ReturnExtract /\ UNCHANGED orchVars
    \/ AbortExtract /\ UNCHANGED orchVars

Spec == Init /\ [][Next]_vars

\* One extract call over days 1..e, on a store in which an earlier run has
\* left the channels DayFile of day 1; analytics files of up to MaxRecs
\* records.
EnrichInit ==
    /\ backend \in {"local", "gcs"}
    /\ store = [p \in Kinds \X Days |->
                   IF p = <<"channels", 1>> THEN "complete" ELSE "absent"]
    /\ pc = "idle"
    /\ kind = "members" /\ startDay = 1 /\ endDay = 1 /\ day = 1
    /\ extracted = 0 /\ skipped = 0 /\ files = <<>>
    /\ cache = EmptyCache
    /\ data = <<>> /\ toFetch = <<>> /\ active = {} /\ enriched = <<>>
    /\ outcome = NoOutcome /\ fetches = ZeroDays /\ lookups = ZeroIds
    /\ writes = ZeroDays /\ overwrote = FALSE
    /\ last = NoLast /\ rerun = FALSE /\ calls = 0
    /\ groupKeySet = TRUE
    /\ LoadIdle
    /\ TransformIdle
    /\ OrchIdle
    /\ RunIdle
    /\ ClientIdle

EnrichNext ==
    \/ \E k \in Kinds, e \in Days :
          calls = 0 /\ StartExtract(k, 1, e) /\ UNCHANGED orchVars
    \/ CheckSkip
    \/ CheckMiss
    \/ CheckThrows
    \/ /\ pc = "fetch"
       /\ \E api \in ApiOutcomes :
            \E payload \in (IF api = "file" THEN Payloads(kind) ELSE {<<>>}) :
               FetchDay(api, payload)
    \/ IssueLookup
    \/ \E ok \in BOOLEAN : Lookup(ok)
    \/ \E result \in WriteResults : WriteDay(result)
    \/ ReturnExtract /\ UNCHANGED orchVars
    \/ AbortExtract /\ UNCHANGED orchVars

EnrichSpec == EnrichInit /\ [][EnrichNext]_vars

\* --------------------------------------------------------- Load Stage steps
\* path.resolve of a storage root against the working directory
resolveRoot(root) == IF root \in {"tmp", "./tmp"} THEN "/cwd/tmp" ELSE root

\* load.js:21-40  getRelativePath: strip the storage base from a full path; a
\* path outside the base comes back unchanged
getRelativePath(p) ==
    IF backend = "gcs"
    THEN IF p.root = getStoragePath THEN p.rel ELSE p
    ELSE IF resolveRoot(p.root) = resolveRoot(getStoragePath) THEN p.rel ELSE p

\* The paths extract reports for a DayFile (extract.js:609, 632)
PathsOf(k, d) == {getFullPath(filePath(k, d)), writtenPath(filePath(k, d))}

\* File lists handed to load: up to MaxFiles DayFile paths of one kind, in
\* ascending date order
FileLists(k) ==
    UNION {{fl \in [1..n -> UNION {PathsOf(k, d) : d \in Days}] :
               \A i \in 1..n, j \in 1..n :
                   i < j => fl[i].rel.date < fl[j].rel.date}
           : n \in 0..MaxFiles}

\* load.js:145, 167, 265  recordType of a phase
recordType(phase, k) ==
    IF phase = "events" THEN "event"
    ELSE IF k = "members" THEN "user" ELSE "group"

\* load.js:88-90  group imports need a group key
groupKeyMissing(phase, k) == recordType(phase, k) = "group" /\ ~groupKeySet

\* Faulty variant: the same delay before every retry
backoffDelayFixed(n) == 2000

\* load.js:102-105  backoff before the next attempt, in ms
backoffDelay(n) == n * 2000

\* Faulty variant: the retry bound is off by one
moreAttemptsOffByOne(n) == n < maxRetries - 1

\* load.js:55  the loop goes on after a failed attempt n
moreAttempts(n) == n < maxRetries

\* Faulty variant: the short-circuit counts the files once
shortCircuitOnce(n) ==
    [returned |-> TRUE, uploaded |-> 0, failed |-> n,
     results |-> [events |-> phaseEntry(FALSE, n), profiles |-> initialEntry]]

\* load.js:155-162  value returned when the events upload failed: the
\* profiles entry of `results` is as it was initialised
shortCircuitResult(n) ==
    [returned |-> TRUE, uploaded |-> 0, failed |-> n * 2,
     results |-> [events |-> phaseEntry(FALSE, n), profiles |-> initialEntry]]

\* Faulty variant: files count as uploaded only when both phases succeeded
loadResultAllOrNothing(evOk, prOk, n) ==
    [returned |-> TRUE,
     uploaded |-> IF evOk /\ prOk THEN 2 * n ELSE 0,
     failed   |-> (IF evOk THEN 0 ELSE n) + (IF prOk THEN 0 ELSE n),
     results  |-> [events |-> phaseEntry(evOk, n),
                   profiles |-> phaseEntry(prOk, n)]]

\* load.js:200-211  value returned after both phases ran
loadResult(evOk, prOk, n) ==
    [returned |-> TRUE,
     uploaded |-> (IF evOk THEN n ELSE 0) + (IF prOk THEN n ELSE 0),
     failed   |-> (IF evOk THEN 0 ELSE n) + (IF prOk THEN 0 ELSE n),
     results  |-> [events |-> phaseEntry(evOk, n),
                   profiles |-> phaseEntry(prOk, n)]]

\* Faulty variant: the profiles phase runs whatever the events upload did
profilesFollowAlways(evOk) == TRUE

\* load.js:155  the profiles phase runs only when the events upload succeeded
profilesFollow(evOk) == evOk

\* Faulty variant: cleanup does not look at the profiles phase
cleanupDueAfterEvents(cl, evOk, prOk) == cl /\ evOk

\* load.js:181 / 280  cleanup condition
cleanupDue(cl, evOk, prOk) == cl /\ evOk /\ prOk

\* load.js:125-148 / 222-246  entry of load*Analytics
StartLoad(k, fl, cl) ==
    /\ lpc = "idle" /\ pc = "idle"
    /\ loads' = loads + 1
    /\ lkind' = k /\ lfiles' = fl /\ cleanup' = cl
    /\ attempt' = 1
    /\ evResult' = "pending" /\ prResult' = "pending"
    /\ uploaderCalls' = ZeroPhases /\ thrown' = ZeroPhases
    /\ sent' = {} /\ sleeps' = <<>>
    /\ delIdx' = 1 /\ deleteCalls' = 0 /\ deleteFailed' = 0
    /\ lresult' = NoResult
    /\ lpc' = "events"
    /\ UNCHANGED <<groupKeySet, extractVars, transformVars, clientVars, runVars>>

\* load.js:150-162, 172-211  what load does once uploadBatch has returned
\* for a phase
AfterPhase(phase, ok) ==
    IF phase = "events"
    THEN /\ evResult' = (IF ok THEN "success" ELSE "failed")
         /\ prResult' = prResult
         /\ IF profilesFollow(ok)
            THEN lpc' = "profiles" /\ lresult' = lresult
            ELSE lpc' = "returned" /\ lresult' = shortCircuitResult(Len(lfiles))
    ELSE /\ prResult' = (IF ok THEN "success" ELSE "failed")
         /\ evResult' = evResult
         /\ IF cleanupDue(cleanup, evResult = "success", ok) /\ Len(lfiles) > 0
            THEN lpc' = "cleanup" /\ lresult' = lresult
            ELSE /\ lpc' = "returned"
                 /\ lresult' = loadResult(evResult = "success", ok, Len(lfiles))

\* load.js:55-114  one iteration of uploadBatch's retry loop
UploadAttempt(throws) ==
    /\ lpc \in Phases
    /\ groupKeyMissing(lpc, lkind) => throws
    /\ IF groupKeyMissing(lpc, lkind)
       THEN UNCHANGED <<uploaderCalls, sent>>
       ELSE /\ uploaderCalls' = [uploaderCalls EXCEPT ![lpc] = @ + 1]
            /\ sent' = sent \cup {lfiles}
    /\ IF ~throws
       THEN /\ AfterPhase(lpc, TRUE)
            /\ attempt' = 1
            /\ UNCHANGED <<thrown, sleeps>>
       ELSE /\ thrown' = [thrown EXCEPT ![lpc] = @ + 1]
            /\ IF moreAttempts(attempt)
               THEN /\ sleeps' = Append(sleeps, backoffDelay(attempt))
                    /\ attempt' = attempt + 1
                    /\ UNCHANGED <<lpc, evResult, prResult, lresult>>
               ELSE /\ AfterPhase(lpc, FALSE)
                    /\ attempt' = 1
                    /\ UNCHANGED sleeps
    /\ UNCHANGED <<groupKeySet, lkind, lfiles, cleanup, delIdx, deleteCalls,
                   deleteFailed, loads, extractVars, transformVars, clientVars, runVars,
                   orchVars>>

\* storage.js:202-220  deleteFile can succeed unless the cloud object is
\* missing (file.delete() rejects); a local missing file is a no-op
deleteCanSucceed(rel) ==
    ~(backend = "gcs" /\ store[<<rel.kind, rel.date>>] = "absent")

\* Faulty variant: the first delete that fails ends the cleanup loop
cleanupGoesOnWhileOk(ok) == ok

\* load.js:187-194 / 286-293  the try/catch is inside the loop: a delete that
\* fails is counted and logged, and the loop goes on with the next file
cleanupGoesOn(ok) == TRUE

\* load.js:186-195 / 285-294  one iteration of the cleanup loop
DeleteStep(ok) ==
    /\ lpc = "cleanup"
    /\ LET rel == getRelativePath(lfiles[delIdx])
       IN  /\ ok => deleteCanSucceed(rel)
           /\ deleteCalls' = deleteCalls + 1
           /\ IF ok
              THEN /\ store' = [store EXCEPT ![<<rel.kind, rel.date>>] = "absent"]
                   /\ UNCHANGED deleteFailed
              ELSE /\ deleteFailed' = deleteFailed + 1
                   /\ UNCHANGED store
    /\ delIdx' = delIdx + 1
    /\ IF delIdx + 1 > Len(lfiles) \/ ~cleanupGoesOn(ok)
       THEN /\ lpc' = "returned"
            /\ lresult' = loadResult(evResult = "success",
                                     prResult = "success", Len(lfiles))
       ELSE UNCHANGED <<lpc, lresult>>
    /\ UNCHANGED <<groupKeySet, lkind, lfiles, cleanup, attempt, evResult,
                   prResult, uploaderCalls, thrown, sent, sleeps, loads,
                   backend, extractRun, transformVars, clientVars, runVars, orchVars>>

\* load.js:207-211  the caller has the result; the process goes on
ReturnLoad ==
    /\ lpc = "returned"
    /\ lpc' = "idle"
    /\ lkind' = "members" /\ lfiles' = <<>> /\ cleanup' = FALSE
    /\ attempt' = 1
    /\ evResult' = "pending" /\ prResult' = "pending"
    /\ uploaderCalls' = ZeroPhases /\ thrown' = ZeroPhases
    /\ sent' = {} /\ sleeps' = <<>>
    /\ delIdx' = 1 /\ deleteCalls' = 0 /\ deleteFailed' = 0
    /\ lresult' = NoResult
    /\ UNCHANGED <<groupKeySet, loads, extractVars, transformVars, clientVars, runVars>>

\* load calls on a store that an extract run has filled
LoadInit ==
    /\ backend \in {"local", "gcs"}
    /\ store = [p \in Kinds \X Days |-> "complete"]
    /\ pc = "idle"
    /\ kind = "members" /\ startDay = 1 /\ endDay = 1 /\ day = 1
    /\ extracted = 0 /\ skipped = 0 /\ files = <<>>
    /\ cache = EmptyCache
    /\ data = <<>> /\ toFetch = <<>> /\ active = {} /\ enriched = <<>>
    /\ outcome = NoOutcome /\ fetches = ZeroDays /\ lookups = ZeroIds
    /\ writes = ZeroDays /\ overwrote = FALSE
    /\ last = NoLast /\ rerun = FALSE /\ calls = 0
    /\ groupKeySet \in BOOLEAN
    /\ LoadIdle
    /\ TransformIdle
    /\ OrchIdle
    /\ RunIdle
    /\ ClientIdle

LoadNext ==
    \/ /\ lpc = "idle" /\ loads < MaxLoads
       /\ \E k \in Kinds, cl \in BOOLEAN : \E fl \in FileLists(k) :
             StartLoad(k, fl, cl) /\ UNCHANGED orchVars
    \/ \E throws \in BOOLEAN : UploadAttempt(throws)
    \/ \E ok \in BOOLEAN : DeleteStep(ok)
    \/ ReturnLoad /\ UNCHANGED orchVars

LoadSpec == LoadInit /\ [][LoadNext]_vars

\* ------------------------------------------------------------ Pipeline run
\* Requested entity pipelines, in the order they are run
PipelineLists == {<<"members">>, <<"channels">>, <<"members", "channels">>}

\* Options of a run: at most one of extractOnly and loadOnly
RunOptions ==
    {o \in [pipelines : PipelineLists, extractOnly : BOOLEAN,
             loadOnly : BOOLEAN, cleanup : BOOLEAN, endDay : 1..MaxWindow] :
        ~(o.extractOnly /\ o.loadOnly)}

\* the extract half runs unless loadOnly is set
extractWanted(opts) == ~opts.loadOnly

\* Faulty variant: load runs whatever extractOnly says
loadWantedAlways(opts) == TRUE

\* the load half runs unless extractOnly is set
loadWanted(opts) == ~opts.extractOnly

\* Faulty variant: load is started on an empty list
filesForLoadNone(entry) == <<>>

\* the files handed to load are the files extract reported
filesForLoad(entry) == entry.files

\* where a run stands before the entity pipelines of `todo`
stageFor(todo, opts) ==
    IF todo = <<>> THEN "returned"
    ELSE IF extractWanted(opts) THEN "extract" ELSE "load"

\* File lists of the days of a window
WindowFileLists(k, e) ==
    {fl \in FileLists(k) : \A i \in 1..Len(fl) : fl[i].rel.date <= e}

\* validate params -> compute date window
StartRun(opts) ==
    /\ ostage = "idle"
    /\ pc = "idle" /\ lpc = "idle"
    /\ oopts' = opts
    /\ otodo' = opts.pipelines
    /\ oreport' = NoReport
    /\ ostage' = stageFor(opts.pipelines, opts)
    /\ UNCHANGED <<extractVars, loadVars, transformVars, clientVars, runVars>>

\* extract is called for the next entity pipeline
RunExtract ==
    /\ ostage = "extract"
    /\ StartExtract(Head(otodo), 1, oopts.endDay)
    /\ ostage' = "extracting"
    /\ UNCHANGED <<oopts, otodo, oreport>>

\* extract returned: its result goes into the report; load follows unless
\* the run is extract-only
RunExtractReturns ==
    /\ ostage = "extracting"
    /\ ReturnExtract
    /\ oreport' = [oreport EXCEPT !.extract[Head(otodo)] =
                      [present |-> TRUE, extracted |-> extracted,
                       skipped |-> skipped, files |-> files]]
    /\ IF loadWanted(oopts)
       THEN ostage' = "load" /\ otodo' = otodo
       ELSE ostage' = stageFor(Tail(otodo), oopts) /\ otodo' = Tail(otodo)
    /\ UNCHANGED oopts

\* extract threw: the run ends on the first unhandled exception
RunExtractThrows ==
    /\ ostage = "extracting"
    /\ AbortExtract
    /\ ostage' = "failed"
    /\ UNCHANGED <<oopts, otodo, oreport>>

\* load is called for the entity pipeline: with the files extract reported,
\* or, in a load-only run, with files of the window
RunLoad ==
    /\ ostage = "load"
    /\ \E fl \in (IF extractWanted(oopts)
                  THEN {filesForLoad(oreport.extract[Head(otodo)])}
                  ELSE WindowFileLists(Head(otodo), oopts.endDay)) :
          StartLoad(Head(otodo), fl, oopts.cleanup)
    /\ ostage' = "loading"
    /\ UNCHANGED <<oopts, otodo, oreport>>

\* load returned: its result goes into the report; the next entity pipeline
\* follows
RunLoadReturns ==
    /\ ostage = "loading"
    /\ ReturnLoad
    /\ oreport' = [oreport EXCEPT !.load[Head(otodo)] =
                      [present |-> TRUE, uploaded |-> lresult.uploaded,
                       failed |-> lresult.failed]]
    /\ otodo' = Tail(otodo)
    /\ ostage' = stageFor(Tail(otodo), oopts)
    /\ UNCHANGED oopts

\* One pipeline run, on an empty store or on one that earlier runs filled
OrchInit ==
    /\ backend \in {"local", "gcs"}
    /\ \E st \in {"absent", "complete"} :
          store = [p \in Kinds \X Days |-> st]
    /\ pc = "idle"
    /\ kind = "members" /\ startDay = 1 /\ endDay = 1 /\ day = 1
    /\ extracted = 0 /\ skipped = 0 /\ files = <<>>
    /\ cache = EmptyCache
    /\ data = <<>> /\ toFetch = <<>> /\ active = {} /\ enriched = <<>>
    /\ outcome = NoOutcome /\ fetches = ZeroDays /\ lookups = ZeroIds
    /\ writes = ZeroDays /\ overwrote = FALSE
    /\ last = NoLast /\ rerun = FALSE /\ calls = 0
    /\ groupKeySet = TRUE
    /\ LoadIdle
    /\ TransformIdle
    /\ OrchIdle
    /\ RunIdle
    /\ ClientIdle

OrchNext ==
    \/ \E opts \in RunOptions : StartRun(opts)
    \/ RunExtract
    \/ RunExtractReturns
    \/ RunExtractThrows
    \/ RunLoad
    \/ RunLoadReturns
    \/ CheckSkip
    \/ CheckMiss
    \/ CheckThrows
    \/ /\ pc = "fetch"
       /\ \E api \in ApiOutcomes :
            \E payload \in (IF api = "file" THEN SmallPayloads(kind)
                                              ELSE {<<>>}) :
               FetchDay(api, payload)
    \/ IssueLookup
    \/ \E ok \in BOOLEAN : Lookup(ok)
    \/ \E result \in WriteResults : WriteDay(result)
    \/ \E throws \in BOOLEAN : UploadAttempt(throws)
    \/ \E ok \in BOOLEAN : DeleteStep(ok)

OrchSpec == OrchInit /\ [][OrchNext]_vars

\* ------------------------------------------------- Profile transform steps
\* load hands a record of a members DayFile to transformMemberProfile
ApplyMemberProfile ==
    /\ tout.result = "none"
    /\ tin.kind = "members"
    /\ tout' = transformMemberProfile(tin)
    /\ UNCHANGED <<tin, extractVars, loadVars, orchVars, runVars, clientVars>>

\* load hands a record of a channels DayFile to transformChannelProfile
ApplyChannelProfile ==
    /\ tout.result = "none"
    /\ tin.kind = "channels"
    /\ tout' = transformChannelProfile(tin)
    /\ UNCHANGED <<tin, extractVars, loadVars, orchVars, runVars, clientVars>>

\* load hands a record of a members DayFile to transformMemberEvent
ApplyMemberEvent ==
    /\ tout.result = "none"
    /\ tin.kind = "members"
    /\ tout' = transformMemberEvent(tin)
    /\ UNCHANGED <<tin, extractVars, loadVars, orchVars, runVars, clientVars>>

\* load hands a record of a channels DayFile to transformChannelEvent
ApplyChannelEvent ==
    /\ tout.result = "none"
    /\ tin.kind = "channels"
    /\ tout' = transformChannelEvent(tin)
    /\ UNCHANGED <<tin, extractVars, loadVars, orchVars, runVars, clientVars>>

\* One transform applied to one record
TransformInit ==
    /\ backend \in {"local", "gcs"}
    /\ store = [p \in Kinds \X Days |-> "complete"]
    /\ pc = "idle"
    /\ kind = "members" /\ startDay = 1 /\ endDay = 1 /\ day = 1
    /\ extracted = 0 /\ skipped = 0 /\ files = <<>>
    /\ cache = EmptyCache
    /\ data = <<>> /\ toFetch = <<>> /\ active = {} /\ enriched = <<>>
    /\ outcome = NoOutcome /\ fetches = ZeroDays /\ lookups = ZeroIds
    /\ writes = ZeroDays /\ overwrote = FALSE
    /\ last = NoLast /\ rerun = FALSE /\ calls = 0
    /\ groupKeySet = TRUE
    /\ LoadIdle
    /\ tin \in TransformInputs /\ tout = NoOutput
    /\ OrchIdle
    /\ RunIdle
    /\ ClientIdle

TransformNext ==
    \/ ApplyMemberProfile
    \/ ApplyChannelProfile
    \/ ApplyMemberEvent
    \/ ApplyChannelEvent

TransformSpec == TransformInit /\ [][TransformNext]_vars

\* ------------------------------------------------- Requests and pipeline runs
\* slack.js:84-95, 831-847  initializeSlack, started when the module is
\* loaded: auth.test for the user token, then for the bot token
AuthSettles(ok) ==
    /\ slackInit \in {"user", "bot"}
    /\ slackInit' = (IF ~ok THEN "failed"
                     ELSE IF slackInit = "user" THEN "bot" ELSE "ready")
    /\ UNCHANGED <<caller, request, options, rpc, steps, runError, status, io,
                   pipelineJobs, report>>
    /\ UNCHANGED <<extractVars, loadVars, transformVars, clientVars, orchVars>>
    /\ UNCHANGED dateRange

\* run-pipeline.js:267-270 and index.js:172-184  an error leaves runPipeline;
\* an HTTP request is answered with the status its message gives
fail(who, message, by) ==
    /\ runError' = [message |-> message, raisedBy |-> by]
    /\ rpc' = (IF who = "http" THEN "responded" ELSE "rejected")
    /\ status' = (IF who = "http" THEN statusFor(message) ELSE 0)
    /\ steps' = <<>>

\* index.js:148-185 / 188-225  POST /mixpanel-members, /mixpanel-channels up
\* to the call of runPipeline
HttpRequest(endpoint, body, query) ==
    /\ rpc = "idle"
    /\ caller' = "http"
    /\ request' = mergeParams(body, query)
    /\ LET parsed == parseRequest(body, query)
       IN  IF parsed.threw
           THEN /\ fail("http", parsed.message, "validation")
                /\ UNCHANGED options
           ELSE /\ options' = [parsed.params EXCEPT !.pipelines = {endpoint}]
                /\ steps' = runSteps({endpoint})
                /\ rpc' = "running"
                /\ UNCHANGED <<runError, status>>
    /\ UNCHANGED <<slackInit, io, pipelineJobs, report>>
    /\ UNCHANGED <<extractVars, loadVars, transformVars, clientVars, orchVars>>
    /\ UNCHANGED dateRange

\* run-pipeline.js:181-183  runPipeline(options) called by a script or test
DirectCall(opts) ==
    /\ rpc = "idle"
    /\ caller' = "direct"
    /\ request' = opts
    /\ options' = opts
    /\ steps' = runSteps(pipelinesOf(opts))
    /\ rpc' = "running"
    /\ UNCHANGED <<slackInit, runError, status, io, pipelineJobs, report>>
    /\ UNCHANGED <<extractVars, loadVars, transformVars, clientVars, orchVars>>
    /\ UNCHANGED dateRange

\* run-pipeline.js:186-187  const params = parseParameters(options);
\* const dateRange = getDateRange(params), on the day `now`
ParseStep(now) ==
    /\ rpc = "running" /\ steps # <<>> /\ Head(steps) = "parseParameters"
    /\ LET parsed == parseParameters(options)
       IN  IF parsed.threw
           THEN /\ fail(caller, parsed.message, "validation")
                /\ UNCHANGED <<options, dateRange>>
           ELSE /\ options' = parsed.params
                /\ dateRange' = getDateRange(parsed.params, now)
                /\ steps' = Tail(steps)
                /\ UNCHANGED <<rpc, runError, status>>
    /\ UNCHANGED <<slackInit, caller, request, io, pipelineJobs, report>>
    /\ UNCHANGED <<extractVars, loadVars, transformVars, clientVars, orchVars>>

\* run-pipeline.js:203-213 / 216-227  one entity pipeline: the model awaits
\* the Source Client (slack-members.js:13-16; every call of the client awaits
\* ensureSlackInitialized first), then work(jobs, stats) starts the two
\* uploads; `threw` is the error the fetch ended with, NoMessage for none
FetchStep(threw) ==
    /\ rpc = "running" /\ steps # <<>>
    /\ Head(steps) \in {"members", "channels"}
    /\ slackInit \in {"ready", "failed"}
    /\ slackInit = "failed" => threw = authMessage
    /\ slackInit = "ready" => threw # authMessage
    /\ IF slackInit = "failed"
       THEN /\ fail(caller, threw, "execution")
            /\ UNCHANGED <<io, pipelineJobs>>
       ELSE IF threw # NoMessage
       THEN /\ fail(caller, threw, "execution")
            /\ io' = [io EXCEPT !.source = @ + 1]
            /\ UNCHANGED pipelineJobs
       ELSE /\ io' = IF getWorkFunction(options.env) = "cloudTask"
                       THEN [io EXCEPT !.source = @ + 1, !.blob = @ + 2]
                       ELSE [io EXCEPT !.source = @ + 1, !.upload = @ + 2]
            /\ pipelineJobs' = pipelineJobs \o
                  [i \in 1..2 |-> newJob(jobLabels(Head(steps))[i],
                                         getWorkFunction(options.env))]
            /\ steps' = Tail(steps)
            /\ UNCHANGED <<rpc, runError, status>>
    /\ UNCHANGED <<slackInit, caller, request, options, report>>
    /\ UNCHANGED <<extractVars, loadVars, transformVars, clientVars, orchVars>>
    /\ UNCHANGED dateRange

\* tasks.js:140-151  the upload of one job ends
JobSettles(i, result) ==
    /\ i \in 1..Len(pipelineJobs)
    /\ pipelineJobs[i].status = "pending"
    /\ pipelineJobs' = [pipelineJobs EXCEPT ![i] = settled(@, result)]
    /\ UNCHANGED <<slackInit, caller, request, options, rpc, steps, runError,
                   status, io, report>>
    /\ UNCHANGED <<extractVars, loadVars, transformVars, clientVars, orchVars>>
    /\ UNCHANGED dateRange

\* run-pipeline.js:230-265  await Promise.allSettled(pipelineJobs), then the
\* report; index.js:165-170 answers 200
SettleStep ==
    /\ rpc = "running" /\ steps # <<>> /\ Head(steps) = "allSettled"
    /\ \A i \in 1..Len(pipelineJobs) : pipelineJobs[i].status # "pending"
    /\ report' = reportOf(pipelineJobs)
    /\ rpc' = (IF caller = "http" THEN "responded" ELSE "returned")
    /\ status' = (IF caller = "http" THEN 200 ELSE 0)
    /\ steps' = <<>>
    /\ UNCHANGED <<slackInit, caller, request, options, runError, io,
                   pipelineJobs>>
    /\ UNCHANGED <<extractVars, loadVars, transformVars, clientVars, orchVars>>
    /\ UNCHANGED dateRange

\* One request or one direct call, on a freshly started process
RunInit ==
    /\ backend = "gcs"
    /\ store = [p \in Kinds \X Days |-> "complete"]
    /\ pc = "idle"
    /\ kind = "members" /\ startDay = 1 /\ endDay = 1 /\ day = 1
    /\ extracted = 0 /\ skipped = 0 /\ files = <<>>
    /\ cache = EmptyCache
    /\ data = <<>> /\ toFetch = <<>> /\ active = {} /\ enriched = <<>>
    /\ outcome = NoOutcome /\ fetches = ZeroDays /\ lookups = ZeroIds
    /\ writes = ZeroDays /\ overwrote = FALSE
    /\ last = NoLast /\ rerun = FALSE /\ calls = 0
    /\ groupKeySet = TRUE
    /\ LoadIdle
    /\ TransformIdle
    /\ OrchIdle
    /\ RunIdle
    /\ ClientIdle

RunNext ==
    \/ \E ok \in BOOLEAN : AuthSettles(ok)
    \/ \E endpoint \in Kinds, body \in Bodies, query \in Queries :
          HttpRequest(endpoint, body, query)
    \/ \E opts \in DirectOptions : DirectCall(opts)
    \/ \E now \in Todays : ParseStep(dayjsUtc(now))
    \/ \E threw \in {NoMessage, authMessage} \cup UpstreamMessages :
          FetchStep(threw)
    \/ \E i \in 1..Len(pipelineJobs), result \in JobOutcomes :
          JobSettles(i, result)
    \/ SettleStep

RunSpec == RunInit /\ [][RunNext]_vars

\* ------------------------------------------------------ Analytics fetch alone
\* What admin.analytics.getFile can answer for one day of one kind
AnalyticsInputs ==
    UNION {[kind : {k}, api : {a},
            payload : (IF a = "file" THEN Payloads(k) ELSE {<<>>})] :
           k \in Kinds, a \in ApiOutcomes}

\* slack.js:131-218  extract awaits analytics(date, date, type, false); the
\* loop of extract adds no wait of its own between two days
\* (extract.js:600-643)
ApplyAnalytics(jitter) ==
    /\ tout = NoOutput
    /\ LET res == analytics(tin.api, tin.payload)
       IN  tout' = [result |-> IF res.threw THEN "threw" ELSE "returned",
                    records |-> res.records,
                    slept |-> sleepAfter(tin.api, jitter)]
    /\ UNCHANGED <<tin, extractVars, loadVars, orchVars, runVars, clientVars>>

\* One analytics fetch of one day
AnalyticsInit ==
    /\ backend \in {"local", "gcs"}
    /\ store = [p \in Kinds \X Days |-> "absent"]
    /\ pc = "idle"
    /\ kind = "members" /\ startDay = 1 /\ endDay = 1 /\ day = 1
    /\ extracted = 0 /\ skipped = 0 /\ files = <<>>
    /\ cache = EmptyCache
    /\ data = <<>> /\ toFetch = <<>> /\ active = {} /\ enriched = <<>>
    /\ outcome = NoOutcome /\ fetches = ZeroDays /\ lookups = ZeroIds
    /\ writes = ZeroDays /\ overwrote = FALSE
    /\ last = NoLast /\ rerun = FALSE /\ calls = 0
    /\ groupKeySet = TRUE
    /\ LoadIdle
    /\ tin \in AnalyticsInputs /\ tout = NoOutput
    /\ OrchIdle
    /\ RunIdle
    /\ ClientIdle

AnalyticsNext == \E jitter \in Jitters : ApplyAnalytics(jitter)

AnalyticsSpec == AnalyticsInit /\ [][AnalyticsNext]_vars

\* ------------------------------------------------- Source Client operations
\* the request an operation issues, with what initialisation has come to
request_(o) == [op |-> o, init |-> slackInit]

\* slack.js:831-844  ensureSlackInitialized(): initializeSlack is called only
\* while there is no promise yet
ensureSlackInitialized ==
    IF initNeeded
    THEN slackInit' = "user" /\ initStarts' = initStarts + 1
    ELSE UNCHANGED <<slackInit, initStarts>>

\* a caller invokes an operation of slackService: a guarded one calls
\* ensureSlackInitialized and awaits its promise, the others go straight to
\* their first request (slack.js:365, 611)
Invoke(c, o) ==
    /\ clientOps[c].at = "idle"
    /\ invoked < MaxInvocations
    /\ invoked' = invoked + 1
    /\ IF guarded(o)
       THEN /\ ensureSlackInitialized
            /\ clientOps' = [clientOps EXCEPT ![c] =
                                [NoOp EXCEPT !.op = o, !.at = "awaitInit"]]
            /\ UNCHANGED issued
       ELSE /\ clientOps' = [clientOps EXCEPT ![c] =
                                [NoOp EXCEPT !.op = o, !.at = "request"]]
            /\ issued' = issued \cup {request_(o)}
            /\ UNCHANGED <<slackInit, initStarts>>
    /\ UNCHANGED <<slackCache, directory>>
    /\ UNCHANGED <<caller, request, options, rpc, steps, runError, status, io,
                   pipelineJobs, report>>
    /\ UNCHANGED <<extractVars, loadVars, transformVars, orchVars>>
    /\ UNCHANGED dateRange

\* the await of ensureSlackInitialized() ends: a rejected initialisation
\* rejects the operation; otherwise a listing operation returns the cached
\* listing or issues the request for the first page (slack.js:232-236,
\* 263-267), and any other operation issues its request
InitAwaited(c) ==
    /\ clientOps[c].at = "awaitInit"
    /\ slackInit \in {"ready", "failed"}
    /\ LET o == clientOps[c].op
       IN  IF slackInit = "failed"
           THEN /\ clientOps' = [clientOps EXCEPT ![c].at = "failed"]
                /\ UNCHANGED issued
           ELSE IF listing(o) /\ cacheHit(o)
           THEN /\ clientOps' = [clientOps EXCEPT
                                    ![c].at = "done",
                                    ![c].result = slackCache[cacheKey(o)]]
                /\ UNCHANGED issued
           ELSE /\ clientOps' = [clientOps EXCEPT
                                    ![c].at = IF listing(o) THEN "paging"
                                              ELSE "request"]
                /\ issued' = issued \cup {request_(o)}
    /\ UNCHANGED <<initStarts, slackCache, directory, invoked>>
    /\ UNCHANGED runVars
    /\ UNCHANGED <<extractVars, loadVars, transformVars, orchVars>>

\* slack.js:236-247 / 267-278  a page of the listing arrives: with a
\* next_cursor the next page is requested, without one the listing is
\* stored in `cache` and returned
PageArrives(c, more) ==
    /\ clientOps[c].at = "paging"
    /\ LET o == clientOps[c].op
           got == Append(clientOps[c].pages, directory)
       IN  /\ more => Len(got) < MaxPages
           /\ IF more
              THEN /\ clientOps' = [clientOps EXCEPT ![c].pages = got]
                   /\ issued' = issued \cup {request_(o)}
                   /\ UNCHANGED slackCache
              ELSE /\ clientOps' = [clientOps EXCEPT ![c].pages = got,
                                                     ![c].result = got,
                                                     ![c].at = "done"]
                   /\ slackCache' = [slackCache EXCEPT ![cacheKey(o)] = got]
                   /\ UNCHANGED issued
    /\ UNCHANGED <<initStarts, directory, invoked>>
    /\ UNCHANGED runVars
    /\ UNCHANGED <<extractVars, loadVars, transformVars, orchVars>>

\* the answer to the request of an operation that does not list
Response(c) ==
    /\ clientOps[c].at = "request"
    /\ clientOps' = [clientOps EXCEPT ![c].at = "done"]
    /\ UNCHANGED <<initStarts, slackCache, directory, issued, invoked>>
    /\ UNCHANGED runVars
    /\ UNCHANGED <<extractVars, loadVars, transformVars, orchVars>>

\* a request is rejected: the operation rejects, `cache` is left alone
RequestFails(c) ==
    /\ clientOps[c].at \in {"paging", "request"}
    /\ clientOps' = [clientOps EXCEPT ![c].at = "failed"]
    /\ UNCHANGED <<initStarts, slackCache, directory, issued, invoked>>
    /\ UNCHANGED runVars
    /\ UNCHANGED <<extractVars, loadVars, transformVars, orchVars>>

\* the caller has the result or the error
OperationEnds(c) ==
    /\ clientOps[c].at \in {"done", "failed"}
    /\ clientOps' = [clientOps EXCEPT ![c] = NoOp]
    /\ UNCHANGED <<initStarts, slackCache, directory, issued, invoked>>
    /\ UNCHANGED runVars
    /\ UNCHANGED <<extractVars, loadVars, transformVars, orchVars>>

\* a member joins or a channel is created: later pages list the new directory
DirectoryChanges ==
    /\ directory < MaxVersions
    /\ directory' = directory + 1
    /\ UNCHANGED <<initStarts, clientOps, slackCache, issued, invoked>>
    /\ UNCHANGED runVars
    /\ UNCHANGED <<extractVars, loadVars, transformVars, orchVars>>

\* Client operations of concurrent callers, on a freshly started process
ClientInit ==
    /\ backend = "gcs"
    /\ store = [p \in Kinds \X Days |-> "absent"]
    /\ pc = "idle"
    /\ kind = "members" /\ startDay = 1 /\ endDay = 1 /\ day = 1
    /\ extracted = 0 /\ skipped = 0 /\ files = <<>>
    /\ cache = EmptyCache
    /\ data = <<>> /\ toFetch = <<>> /\ active = {} /\ enriched = <<>>
    /\ outcome = NoOutcome /\ fetches = ZeroDays /\ lookups = ZeroIds
    /\ writes = ZeroDays /\ overwrote = FALSE
    /\ last = NoLast /\ rerun = FALSE /\ calls = 0
    /\ groupKeySet = TRUE
    /\ LoadIdle
    /\ TransformIdle
    /\ OrchIdle
    /\ RunIdle
    /\ ClientIdle

ClientNext ==
    \/ \E ok \in BOOLEAN : AuthSettles(ok)
    \/ \E c \in Callers, o \in ClientOperations : Invoke(c, o)
    \/ \E c \in Callers : InitAwaited(c)
    \/ \E c \in Callers, more \in BOOLEAN : PageArrives(c, more)
    \/ \E c \in Callers : Response(c)
    \/ \E c \in Callers : RequestFails(c)
    \/ \E c \in Callers : OperationEnds(c)
    \/ DirectoryChanges

ClientSpec == ClientInit /\ [][ClientNext]_vars

\* ------------------------------------------------------ Record filter alone
\* Analytics records with any e-mail address, an empty or missing one
\* included, with and without an id
FilterInputs ==
    [kind : Kinds,
     recs : UNION {[1..n -> [id : {"E1", NoId}, email : Emails]] :
                      n \in 0..MaxRecs}]

\* extract.js:614-623 / 689-692  what extract does with the records of a day
\* before it enriches them
ApplyFilter ==
    /\ tout = NoOutput
    /\ tout' = [result |-> "filtered",
                records |-> keptRecords(tin.kind, tin.recs)]
    /\ UNCHANGED <<tin, extractVars, loadVars, orchVars, runVars, clientVars>>

\* The records of one day, fetched
FilterInit ==
    /\ backend \in {"local", "gcs"}
    /\ store = [p \in Kinds \X Days |-> "absent"]
    /\ pc = "idle"
    /\ kind = "members" /\ startDay = 1 /\ endDay = 1 /\ day = 1
    /\ extracted = 0 /\ skipped = 0 /\ files = <<>>
    /\ cache = EmptyCache
    /\ data = <<>> /\ toFetch = <<>> /\ active = {} /\ enriched = <<>>
    /\ outcome = NoOutcome /\ fetches = ZeroDays /\ lookups = ZeroIds
    /\ writes = ZeroDays /\ overwrote = FALSE
    /\ last = NoLast /\ rerun = FALSE /\ calls = 0
    /\ groupKeySet = TRUE
    /\ LoadIdle
    /\ tin \in FilterInputs /\ tout = NoOutput
    /\ OrchIdle
    /\ RunIdle
    /\ ClientIdle

FilterNext == ApplyFilter

FilterSpec == FilterInit /\ [][FilterNext]_vars

\* ------------------------------------------------------------------ claims
RangeDays == startDay..endDay

RECURSIVE SumOver(_, _)
SumOver(f, S) ==
    IF S = {} THEN 0
    ELSE LET x == CHOOSE y \in S : TRUE IN f[x] + SumOver(f, S \ {x})

NoSourceCall ==
    /\ \A d \in Days : fetches[d] = 0
    /\ \A e \in Entities : lookups[e] = 0

\* C1 (as stated): the second of two identical extract calls in a row returns
\* extracted = 0 and skipped = d2 - d1 + 1, issues no analytics fetch and no
\* detail lookup, and overwrites no DayFile.
C1_SecondCallSkipsAll ==
    (pc = "done" /\ rerun) =>
        /\ extracted = 0
        /\ skipped = endDay - startDay + 1
        /\ NoSourceCall
        /\ ~overwrote

\* C1 (amended): the second call overwrites no DayFile, and when every day of
\* the range had a DayFile as the first call returned, it returns
\* extracted = 0 and skipped = d2 - d1 + 1, with no fetch, lookup or write.
C1_SecondCallSkipsPresent ==
    (pc = "done" /\ rerun) =>
        /\ ~overwrote
        /\ last.present = RangeDays =>
              /\ extracted = 0
              /\ skipped = endDay - startDay + 1
              /\ NoSourceCall
              /\ \A d \in Days : writes[d] = 0

C1_Witness ==
    /\ pc = "done" /\ rerun
    /\ last.present = RangeDays
    /\ endDay - startDay + 1 = MaxDay
    /\ skipped = MaxDay

\* C2: a day whose DayFile exists when the loop reaches it (and whose
\* existence check answers) causes no Source Client call and no write,
\* adds exactly one to skipped and appends getFullPath of the day to files.
C2_ExistingDaySkipped ==
    [][(pc = "check" /\ store[<<kind, day>>] # "absent" /\ pc' # "crashed") =>
          /\ fetches' = fetches /\ lookups' = lookups
          /\ writes' = writes /\ store' = store
          /\ extracted' = extracted
          /\ skipped' = skipped + 1
          /\ files' = Append(files, getFullPath(filePath(kind, day)))
          /\ day' = day + 1]_vars

C2_Witness ==
    /\ pc = "done"
    /\ \E d \in RangeDays : outcome[d] = "skipped" /\ fetches[d] = 0
    /\ \E d \in RangeDays : outcome[d] = "written"
    /\ skipped = 1 /\ Len(files) = 2

\* C3: a fetch that throws on day N does not stop the loop: every day of the
\* range is processed and the days whose write completed have their DayFile;
\* the immediate re-run fetches exactly the days that had no DayFile when the
\* first run returned, day N among them, and skips every other day.
C3_ResumeAfterFailure ==
    (pc = "done") =>
        /\ \A d \in RangeDays :
              /\ outcome[d] # "none"
              /\ outcome[d] = "written" => store[<<kind, d>>] = "complete"
        /\ rerun =>
              /\ last.threw \cap last.present = {}
              /\ \A d \in RangeDays :
                    IF d \in last.present
                    THEN outcome[d] = "skipped" /\ fetches[d] = 0
                    ELSE fetches[d] = 1

C3_Witness ==
    /\ pc = "done" /\ rerun
    /\ startDay = 1 /\ endDay = 3
    /\ last.threw = {2} /\ last.present = {1, 3}
    /\ outcome[1] = "skipped" /\ outcome[3] = "skipped"
    /\ fetches = [d \in Days |-> IF d = 2 THEN 1 ELSE 0]

\* C4: in one extract invocation the number of detail lookups never exceeds
\* MAX_ENRICHMENT, and no lookup is queued once the cache holds
\* MAX_ENRICHMENT entries.
C4_EnrichmentCap ==
    /\ SumOver(lookups, Entities) <= MAX_ENRICHMENT
    /\ cacheSize(cache) >= MAX_ENRICHMENT => toFetch = <<>>

C4_Witness ==
    /\ pc = "write"
    /\ SumOver(lookups, Entities) = MAX_ENRICHMENT
    /\ uncachedIds(data, cache) # {}

\* C5: in one extract invocation every id is looked up at most once; an id
\* whose lookup failed stays cached as the error sentinel; and a day's
\* enrichment leaves an id of the day unlooked only because the cap is
\* reached, whatever lookups failed.
C5_LookupOncePerId ==
    /\ \A e \in Entities :
          /\ lookups[e] <= 1
          /\ (cache[e] # "none") <=> (lookups[e] = 1)
    /\ (pc = "write" /\ uncachedIds(data, cache) # {})
          => cacheSize(cache) >= MAX_ENRICHMENT

C5_Witness ==
    /\ pc = "done"
    /\ extracted >= 2
    /\ \E e1, e2 \in Entities :
          /\ cache[e1] = "error" /\ lookups[e1] = 1
          /\ cache[e2] = "ok"

\* C6: the profiles upload is attempted only after the events upload of the
\* same call succeeded; after a failed events upload it is never attempted.
C6_ProfilesAfterEvents ==
    /\ (lpc = "profiles" \/ uploaderCalls["profiles"] > 0
          \/ thrown["profiles"] > 0 \/ prResult # "pending")
          => evResult = "success"
    /\ evResult = "failed" =>
          /\ lpc = "returned"
          /\ uploaderCalls["profiles"] = 0 /\ thrown["profiles"] = 0

C6_Witness ==
    /\ lpc = "returned"
    /\ evResult = "failed"
    /\ uploaderCalls["events"] = maxRetries
    /\ Len(lfiles) > 0

\* C7: when the events upload failed after all retries, load returns
\* uploaded = 0 and failed = 2 x (number of files).
C7_ShortCircuitCounts ==
    evResult = "failed" =>
        /\ lpc = "returned"
        /\ lresult.returned
        /\ lresult.uploaded = 0
        /\ lresult.failed = 2 * Len(lfiles)

C7_Witness ==
    /\ evResult = "failed"
    /\ Len(lfiles) = 2
    /\ lresult.returned /\ lresult.failed = 4

\* C8: a DayFile is deleted by load only in the cleanup of a call that asked
\* for cleanup and whose events and profiles phases both succeeded.
C8_DeleteOnlyAfterBoth ==
    [][(store' # store \/ deleteCalls' > deleteCalls) =>
          /\ lpc = "cleanup"
          /\ cleanup /\ evResult = "success" /\ prResult = "success"]_vars

C8_Witness ==
    /\ lpc = "returned"
    /\ cleanup /\ deleteCalls = 2
    /\ \E p \in Kinds \X Days : store[p] = "absent"

\* C9: per phase, the uploader is invoked at most maxRetries times, always
\* with the whole file list; the phase succeeds at the first attempt that
\* does not throw, with no attempt after it, and fails only after maxRetries
\* attempts threw.
PhaseResult(p) == IF p = "events" THEN evResult ELSE prResult

C9_BoundedRetries ==
    /\ sent \subseteq {lfiles}
    /\ \A p \in Phases :
          /\ uploaderCalls[p] <= maxRetries
          /\ thrown[p] <= maxRetries
          /\ PhaseResult(p) = "success" =>
                uploaderCalls[p] = thrown[p] + 1 /\ thrown[p] < maxRetries
          /\ PhaseResult(p) = "failed" => thrown[p] = maxRetries
          /\ PhaseResult(p) = "pending" => thrown[p] < maxRetries

C9_Witness ==
    /\ evResult = "success" /\ prResult = "success"
    /\ thrown["profiles"] = maxRetries - 1
    /\ uploaderCalls["profiles"] = maxRetries
    /\ Len(lfiles) = 2

\* C10: every DayFile is the product of one atomic write: no path ever holds
\* a partially written file, so a write that failed leaves nothing that the
\* existence check would take for a completed day, and no existing DayFile
\* is written over.
C10_AtomicDayFile ==
    /\ \A p \in Kinds \X Days : store[p] # "partial"
    /\ \A d \in Days : outcome[d] = "writefail" => ~fileExists(kind, d)
    /\ ~overwrote

\* C11 (as stated): a day whose analytics fetch was rate-limited is fetched
\* again within the same extract call after the 60 s sleep.
C11_RateLimitedDayRetried ==
    \A d \in Days : outcome[d] = "ratelimited" => fetches[d] >= 2

\* C12: an error thrown by a day's analytics fetch never leaves extract: the
\* loop goes on with the next day, every day of the range is processed, and
\* the call returns counters that account for the days written and skipped,
\* extracted = 0 and no file when no day was written.
C12_FetchErrorContained ==
    /\ \A d \in Days : outcome[d] = "threw" =>
          /\ d < day
          /\ store[<<kind, d>>] = "absent"
    /\ pc = "crashed" => outcome[day] = "none"
    /\ pc = "done" =>
          /\ day = endDay + 1
          /\ \A d \in RangeDays : outcome[d] # "none"
          /\ extracted = Cardinality({d \in RangeDays : outcome[d] = "written"})
          /\ skipped = Cardinality({d \in RangeDays : outcome[d] = "skipped"})
          /\ Len(files) = extracted + skipped
          /\ (\A d \in RangeDays : outcome[d] = "threw") =>
                extracted = 0 /\ skipped = 0 /\ files = <<>>

C12_Witness ==
    /\ pc = "done"
    /\ startDay = 1 /\ endDay = MaxDay
    /\ \A d \in RangeDays : outcome[d] = "threw" /\ fetches[d] = 1
    /\ extracted = 0

\* C13 (as stated): a DayFile write that fails is not turned into a logged
\* per-day error: the rejection leaves extract.
C13_StoreFailurePropagates ==
    \A d \in Days : outcome[d] = "writefail" => pc = "crashed"

C15_OneOutputPerInput ==
    pc = "write" =>
        /\ Len(enriched) = Len(data)
        /\ \A i \in 1..Len(data) :
              /\ enriched[i].id = data[i].id
              /\ enriched[i].email = data[i].email
              /\ enriched[i].ENRICHED =
                    IF data[i].id \in Entities /\ lookups[data[i].id] > 0
                    THEN cache[data[i].id] ELSE "null"
              /\ enriched[i].ENRICHED \in {"ok", "error", "null"}

C15_Witness ==
    /\ pc = "write"
    /\ cacheSize(cache) = MAX_ENRICHMENT
    /\ Len(enriched) = 2
    /\ enriched[1].id \in Entities /\ enriched[1].ENRICHED = "null"
    /\ enriched[2].ENRICHED = "ok"

\* C17: a day whose fetch returned no record, or whose records the filter
\* all removed, gets no write and no DayFile and is counted neither as
\* extracted nor as skipped; extracted counts exactly the days whose write
\* completed, each of which has its DayFile, and the day being written is
\* not counted yet.
C17_EmptyDayNotCounted ==
    /\ \A d \in Days : outcome[d] \in {"nodata", "filtered"} =>
          /\ fetches[d] = 1 /\ writes[d] = 0
          /\ store[<<kind, d>>] = "absent"
    /\ extracted = Cardinality({d \in Days : outcome[d] = "written"})
    /\ skipped = Cardinality({d \in Days : outcome[d] = "skipped"})
    /\ \A d \in Days : outcome[d] = "written" =>
          writes[d] = 1 /\ store[<<kind, d>>] = "complete"
    /\ pc = "write" => outcome[day] = "none"

C17_Witness ==
    /\ pc = "done"
    /\ startDay = 1 /\ endDay = 3
    /\ outcome[1] = "nodata" /\ outcome[2] = "filtered"
    /\ outcome[3] = "written"
    /\ extracted = 1 /\ skipped = 0 /\ Len(files) = 1

\* C18: within one extract call the days of the range are processed one at a
\* time in ascending order, each exactly once: while a day is being
\* processed every earlier day of the range is finished and no later day has
\* been checked, fetched or written, and at the end every day is finished.
C18_DaysInOrder ==
    /\ pc \in {"check", "fetch", "lookup", "write"} =>
          /\ day \in RangeDays
          /\ outcome[day] = "none"
    /\ pc = "done" => day = endDay + 1
    /\ pc \in {"check", "fetch", "lookup", "write", "done"} =>
          \A d \in Days :
             /\ fetches[d] <= 1 /\ writes[d] <= 1
             /\ (d \in RangeDays /\ d < day) => outcome[d] # "none"
             /\ (d > day \/ d \notin RangeDays) =>
                   outcome[d] = "none" /\ fetches[d] = 0 /\ writes[d] = 0

C18_Witness ==
    /\ pc = "write" /\ day = 2
    /\ startDay = 1 /\ endDay = 3
    /\ outcome[1] = "written" /\ outcome[3] = "none"
    /\ fetches[2] = 1 /\ fetches[3] = 0

\* C16 (as stated): the $set of the profile a profile transform returns holds
\* no array and no object, whatever ENRICHED carries.
C16_SetHasNoComplexValue ==
    tout.result = "profile" =>
        \A k \in AllKeys : tout.set[k] \notin {"array", "object"}

C21_ValidationBeforeIO ==
    runError.raisedBy = "validation" => io = NoIO /\ pipelineJobs = <<>>

\* a direct call was rejected by validation while the client's start-up
\* authentication had gone on independently
C21_Witness ==
    /\ runError.raisedBy = "validation"
    /\ caller = "direct" /\ rpc = "rejected"
    /\ slackInit = "ready"

\* validation has run on the caller's parameters
validated == rpc # "idle" /\ (steps = <<>> \/ Head(steps) # "parseParameters")

rejectedWith(phrase) ==
    runError.raisedBy = "validation" /\ includes(runError.message, phrase)

present(v) == v # undefined

\* backfill is true together with days, start_date or end_date, or days is
\* present together with start_date or end_date
conflicting(p) ==
    \/ /\ p.backfill \in {Bool(TRUE), Str(TrueText)}
       /\ present(p.days) \/ present(p.start_date) \/ present(p.end_date)
    \/ /\ present(p.days)
       /\ present(p.start_date) \/ present(p.end_date)

\* C22: parameter validation rejects, with an error whose message contains
\* "mutually exclusive", every parameter set in which backfill is true together
\* with days, start_date or end_date, and every set in which days is present
\* together with start_date or end_date; no such set is accepted.
C22_ConflictsRejected ==
    (validated /\ conflicting(request)) => rejectedWith("mutually exclusive")

\* days together with an end date alone, and backfill together with a start
\* date alone, have been rejected
C22_Witness ==
    /\ rejectedWith("mutually exclusive")
    /\ \/ /\ present(request.days) /\ ~present(request.start_date)
          /\ present(request.end_date) /\ ~present(request.backfill)
       \/ /\ request.backfill = Bool(TRUE) /\ ~present(request.days)
          /\ present(request.start_date)


accepted == validated /\ runError.raisedBy # "validation"

\* the value is a positive integer, or a text that is the decimal numeral of
\* one
denotesPositiveInteger(v) ==
    /\ v.type \in {"number", "string"}
    /\ v.text # <<>>
    /\ \A i \in 1..Len(v.text) : isDigit(v.text[i])
    /\ digitsValue(v.text) >= 1

\* C23: a supplied days value is accepted only if it denotes a positive
\* integer: any other value (zero, negative, non-numeric) is rejected with an
\* error whose message contains "positive integer", and whenever validation
\* accepts days the validated value is an integer >= 1.
C23_DaysPositiveInteger ==
    (validated /\ present(request.days) /\ ~conflicting(request)) =>
        /\ ~denotesPositiveInteger(request.days)
              => rejectedWith("positive integer")
        /\ accepted => /\ options.days.type = "number"
                       /\ ~isNaN(options.days)
                       /\ intOf(options.days) >= 1


\* the text has the form YYYY-MM-DD
wellFormedDate(v) ==
    /\ v.type = "string"
    /\ Len(v.text) = 10
    /\ \A i \in 1..10 : IF i \in {5, 8} THEN v.text[i] = "-"
                        ELSE isDigit(v.text[i])

\* C24: a supplied start_date or end_date that does not match YYYY-MM-DD is
\* rejected with an error whose message contains "YYYY-MM-DD"; a supplied date
\* that matches is passed through unchanged.  (Parameter sets without a
\* conflict of mutually exclusive parameters.)
C24_DatesValidated ==
    (validated /\ ~conflicting(request)) =>
        \A k \in {"start_date", "end_date"} :
            present(request[k]) =>
                IF wellFormedDate(request[k])
                THEN accepted => options[k] = request[k]
                ELSE rejectedWith("YYYY-MM-DD")


\* C25: validation failures are distinguishable from execution failures: a
\* request's error is reported with status 400 if and only if it was raised by
\* parameter validation, and every other error raised while running the
\* pipeline is reported with status 500.
C25_StatusByErrorKind ==
    (caller = "http" /\ rpc = "responded" /\ runError.raisedBy # "none") =>
        /\ status = 400 <=> runError.raisedBy = "validation"
        /\ runError.raisedBy = "execution" => status = 500


\* C26: if the analytics request for a day fails with a known empty-data error
\* code (data_not_available, file_not_yet_available, file_not_found), the
\* per-day analytics fetch returns an empty result for that day and does not
\* throw.
C26_KnownCodesAreEmptyDays ==
    (tout # NoOutput /\ tin.api \in {"data_not_available",
                                     "file_not_yet_available",
                                     "file_not_found"}) =>
        tout.result = "returned" /\ tout.records = <<>>

C26_Witness ==
    /\ tin.api = "file_not_found"
    /\ tout # NoOutput /\ tout.result = "returned"


\* C27: every value returned by load, the short-circuit return after an events
\* failure included, has results.events and results.profiles each carrying
\* success, error and count fields.
C27_ResultsShape ==
    lresult.returned =>
        \A ph \in Phases :
            {"success", "error", "count"} \subseteq DOMAIN lresult.results[ph]


\* C28: during cleanup, a failure to delete one DayFile is not fatal: deletion
\* is still attempted for every remaining file, load does not throw, and the
\* uploaded / failed counts it returns are the same as if every delete had
\* succeeded.
C28_DeleteFailureNotFatal ==
    deleteFailed > 0 =>
        /\ lpc \in {"cleanup", "returned"}
        /\ lpc = "returned" =>
              /\ deleteCalls = Len(lfiles)
              /\ lresult.returned
              /\ lresult.uploaded = 2 * Len(lfiles)
              /\ lresult.failed = 0

\* the delete of the first of two files failed and load has returned
C28_Witness ==
    /\ lpc = "returned" /\ lresult.returned
    /\ Len(lfiles) = 2 /\ deleteCalls = 2 /\ deleteFailed = 2


inSeq(x, q) == \E i \in 1..Len(q) : q[i] = x

\* C29: an upload job that fails is recorded under failed in the run report
\* returned by the orchestrator, never under success, and the run still
\* returns a report instead of crashing.
C29_FailedJobsReported ==
    report.returned =>
        \A i \in 1..Len(pipelineJobs) :
            pipelineJobs[i].error =>
                /\ inSeq(pipelineJobs[i], report.failed)
                /\ ~inSeq(pipelineJobs[i], report.success)


\* C30: for any day, the path extract records in files when it writes the
\* DayFile is identical to the path it records for the same day when a later
\* call skips it: every recorded path, written or skipped, is the full path of
\* its relative path, on the local and on the cloud backend.
C30_WrittenPathIsFullPath ==
    \A i \in 1..Len(files) : files[i] = getFullPath(files[i].rel)


\* the waits of a phase in which t attempts have failed: 2 s after the
\* first, 4 s after the second, none after the last
waitsAfter(t) ==
    [k \in 1..(IF t < maxRetries THEN t ELSE maxRetries - 1) |-> k * 2 * 1000]

C32_DelayAfterEveryRequest ==
    tout # NoOutput =>
        /\ tout.slept >= 1500
        /\ tin.api # "ratelimited" => tout.slept <= 3000


\* C33: each extract invocation starts with its own empty enrichment cache,
\* shared by all days of that invocation and by nothing else: every entry the
\* cache holds was put there by a lookup of the running invocation, an id is
\* looked up once for all the days of the invocation, the cache never holds
\* more than MAX_ENRICHMENT entries over the days of an invocation, and an
\* invocation that starts sees no entry.
C33_CachePerInvocation ==
    /\ [](/\ \A e \in Entities : lookups[e] <= 1
          /\ \A e \in Entities : cache[e] # "none" => lookups[e] = 1
          /\ cacheSize(cache) <= MAX_ENRICHMENT)
    /\ [][calls' # calls => cache' = EmptyCache]_vars

\* the second members call skips day 1, whose DayFile the first call wrote
\* after looking up E1, and looks E1 up again for day 2
C33_Witness ==
    /\ rerun /\ calls = 2 /\ kind = "members"
    /\ pc = "lookup" /\ day = 2
    /\ outcome[1] = "skipped"
    /\ active = {"E1"} /\ cacheSize(cache) = 0


\* C34: the directory listing of an entity kind follows the pagination cursor
\* until it is exhausted and is cached with first call wins: a listing
\* operation that has ended returns the listing the cache holds, and once a
\* listing is cached it is never replaced.
C34_ListingCachedOnce ==
    /\ [](\A c \in Callers :
            (clientOps[c].at = "done" /\ listing(clientOps[c].op)) =>
                /\ clientOps[c].result # NoListing
                /\ clientOps[c].result = slackCache[cacheKey(clientOps[c].op)])
    /\ [][\A k \in Kinds :
            slackCache[k] # NoListing => slackCache'[k] = slackCache[k]]_vars

\* C39: Source Client initialization is started at most once per process,
\* however many client operations are invoked or overlap, and no client
\* operation issues an API request before that initialization has completed
\* successfully.
C39_InitOnceBeforeRequests ==
    /\ initStarts <= 1
    /\ \A r \in issued : r.init = "ready"


\* the text ends with "@" followed by the configured domain, character for
\* character
atCompanyDomain(e) ==
    LET n == Len(company_domain)
    IN  /\ Len(e) >= n + 1
        /\ e[Len(e) - n] = "@"
        /\ \A i \in 1..n : e[Len(e) - n + i] = company_domain[i]

\* C35: in member extraction with a configured domain D, a fetched record is
\* kept if and only if its email_address ends with exactly "@D"
\* (case-sensitive suffix), independently of every other field of the record;
\* channel records are never filtered.
C35_DomainFilter ==
    tout.result = "filtered" =>
        IF tin.kind = "members"
        THEN tout.records =
                SelectSeq(tin.recs, LAMBDA r : atCompanyDomain(r.email))
        ELSE tout.records = tin.recs

\* of two member records, the one of the domain is kept and the one whose
\* domain differs in case is dropped, whatever their ids
C35_Witness ==
    /\ tout.result = "filtered" /\ tin.kind = "members"
    /\ Len(tin.recs) = 2
    /\ tin.recs[1].email = EmailUpper
    /\ tin.recs[2].email = EmailMatch /\ tin.recs[2].id = NoId
    /\ tout.records = <<tin.recs[2]>>


\* phases of the running load call that succeeded
succeededPhases == {p \in Phases : PhaseResult(p) = "success"}

\* C36: every value returned by load satisfies uploaded + failed = 2 x (number
\* of files), with uploaded = files x (number of phases that succeeded) and
\* failed = files x (number of phases that did not succeed or were not run).
C36_CountsAddUp ==
    lresult.returned =>
        /\ lresult.uploaded + lresult.failed = 2 * Len(lfiles)
        /\ lresult.uploaded = Len(lfiles) * Cardinality(succeededPhases)
        /\ lresult.failed = Len(lfiles) * Cardinality(Phases \ succeededPhases)

\* two files, the events went up and the profiles did not
C36_Witness ==
    /\ lresult.returned /\ Len(lfiles) = 2
    /\ evResult = "success" /\ prResult = "failed"
    /\ lresult.uploaded = 2 /\ lresult.failed = 2


\* C37: for every record shape that extract can write to a DayFile (ENRICHED
\* holding a detail object, an {error} sentinel, or null) each event transform
\* and each profile transform returns a destination record or null and never
\* throws.
C37_TransformsNeverThrow ==
    (tout.result # "none"
     /\ tin.ENRICHED.form \in {"details", "error", "null"}) =>
        tout.result \in {"event", "profile", "skip"}


\* C38: on return from extract, files.length = extracted + skipped <= number
\* of days in the range, each day contributes at most one path to files, and
\* the paths appear in ascending date order.
C38_FilesOfReturn ==
    pc = "done" =>
        /\ Len(files) = extracted + skipped
        /\ Len(files) <= endDay - startDay + 1
        /\ \A i \in 1..Len(files) :
              /\ files[i].rel.kind = kind
              /\ files[i].rel.date \in RangeDays
        /\ \A i, j \in 1..Len(files) :
              i < j => files[i].rel.date < files[j].rel.date

\* three days: the first found on disk, the second without data, the third
\* written
C38_Witness ==
    /\ pc = "done" /\ startDay = 1 /\ endDay = 3
    /\ outcome[1] = "skipped" /\ outcome[2] = "nodata"
    /\ outcome[3] = "written"
    /\ Len(files) = 2 /\ extracted = 1 /\ skipped = 1
    /\ files[1].rel.date = 1 /\ files[2].rel.date = 3


\* C40: for every parameter set accepted by validation, the computed date
\* window satisfies start <= end, so the entity pipelines are never handed a
\* range whose end date precedes its start date.
C40_WindowOrdered ==
    accepted => dateRange.start <= dateRange.end

============================================================================
